---------------------------- MODULE Spec2Model ----------------------------
(***************************************************************************)
(* A model of the security-critical subsystem of the watermarking          *)
(* repository: the image constraint (utils/image_utils.py), the key        *)
(* derived mask network (utils/key.py), the HMAC counter-mode byte         *)
(* generator (test_key.py) and the ensemble PGD attack                     *)
(* (attack/attacks.py), followed by the fine-tuning and the training of    *)
(* the surrogate decoders (attack/attacks.py) and the attack mode of       *)
(* main.py.                                                                *)
(*                                                                         *)
(* Each subsystem has its own specification over the shared variables;     *)
(* a specification leaves the variables of the other subsystems at their   *)
(* idle values.                                                            *)
(***************************************************************************)
EXTENDS Integers, Sequences, FiniteSets, TLC

VARIABLES
    \* ---- constrain_image (utils/image_utils.py) ----
    x_M_hat,              \* the candidate image, one sample: [Chan -> [Pix -> Int]]
    x_M,                  \* the reference image
    max_delta,            \* the delta budget
    x_M_hat_constrained,  \* the returned image: [Chan -> [Pix -> Float]]
    constrain_pc,         \* "input" | "returned"
    \* ---- generate_csprng_bytes (test_key.py) ----
    key,                  \* the key argument: a sequence of bytes
    num_bytes,            \* the requested length
    result,               \* the local bytearray
    counter,              \* the local block counter
    csprng_pc,            \* "idle" | "loop" | "returned"
    csprng_out,           \* the calls returned so far: [key, num_bytes, out]
    \* ---- the mask network (utils/key.py) and what runs around it ----
    py_random,            \* the state of Python's global random generator
    torch_rng,            \* the state of torch's global generator
    k_mask,               \* [Slot -> mask network]: the variables holding a CryptoCNN
    images,               \* the image batch (one sample) handed to mask_image_with_key
    masked,               \* [Slot -> the last result of mask_image_with_key with k_mask[slot]]
    mask_seed,            \* per variable, the seed its network was generated from
    surrogate,            \* the surrogate decoder's parameters (a version number)
    cnn_error,            \* the exception a CryptoCNN construction raised, or "none"
    \* ---- perform_pgd_attack (attack/attacks.py) ----
    attack_type,          \* the attack_type argument
    num_steps,            \* the num_steps argument
    alpha_values,         \* the alpha_values argument: a sequence of Floats
    image_attack,         \* the image_attack argument: a sequence of images (one value each)
    attack_batch_size,    \* the attack_batch_size argument
    pgd_max_delta,        \* the max_delta argument
    surrogate_decoders,   \* the surrogates: a sequence of gradient patterns
    ensemble_weights,     \* the local list of weights
    alpha_idx,            \* the position of `alpha` in alpha_values (0: before the loop)
    batch_idx,            \* the loop variable of the batch loop
    step,                 \* the loop variable of the step loop
    image_attack_batch,   \* the candidate batch
    original_images,      \* the clone of the batch taken before the steps
    momentum_buffer,      \* the momentum buffer of the batch
    k_attack_batch,       \* the decoder's output on the batch
    k_attack_scores_alpha,\* the scores of the current alpha
    k_attack_scores_mean, \* the returned list of means
    k_attack_scores_std,  \* the returned list of standard deviations
    pgd_events,           \* the stages the current (alpha, batch) pair went through
    pgd_log,              \* the messages logged at error level
    pgd_error,            \* the exception that ended the call, or "none"
    mask_generated,       \* the generate_mask_secret_key calls of the run: [image_shape, seed_key]
    pgd_pc,               \* the position in perform_pgd_attack
    \* ---- fine_tune_surrogate (attack/attacks.py) ----
    ft_epochs,            \* the epochs argument
    ft_num_batches,       \* num_batches
    tensor_storage,       \* the tensor storages: [storage id -> value]
    best_loss,            \* best_loss: a Float
    best_model_state,     \* best_model_state: None or a dict [name -> storage id]
    ft_epoch,             \* the loop variable epoch
    ft_i,                 \* the loop variable i of the batch loop
    ft_history,           \* per finished epoch, its average loss and the parameters at its end
    ft_pc,                \* the position in fine_tune_surrogate
    \* ---- the attack mode of main (main.py) ----
    checkpoint_params,    \* the parameter dictionary the checkpoint files were saved from
    surrogate_decoder_folder, \* args.surrogate_decoder_folder: None or [exists, files]
    train_surrogate,      \* train_surrogate
    surrogate_paths,      \* surrogate_paths: file names or None
    path_idx,             \* the number of surrogate_paths entries already handled
    main_surrogate_decoders, \* the local list surrogate_decoders
    main_loads,           \* per checkpoint read: its file and the new_state_dict built from it
    main_log,             \* the messages logged at warning level
    main_error,           \* the exception that ended main, or "none"
    main_pc,              \* the position in main
    \* ---- train_surrogate_decoder on every rank (attack/attacks.py) ----
    world_size,           \* the world_size argument
    tr_epochs,            \* the epochs argument
    tr_num_batches,       \* num_batches
    local_avg_loss,       \* [rank -> the local average loss of its epochs, 0 before it starts]
    rank_pc,              \* [rank -> its position in train_surrogate_decoder]
    rank_epoch,           \* [rank -> its loop variable epoch]
    rank_batch_idx,       \* [rank -> its loop variable batch_idx]
    reduce_entered,       \* [rank -> the tensors it has passed to all_reduce, in call order]
    reduce_returned,      \* [rank -> the number of all_reduce calls that have returned]
    global_avg_loss,      \* [rank -> the global_avg_loss of each finished epoch]
    tr_log,               \* the log lines emitted: [rank, msg]
    tr_files,             \* the checkpoint files written: [rank, file]
    \* ---- load_stylegan2_model on every rank (models/stylegan2.py) ----
    load_initialized,     \* is_initialized()
    load_world,           \* the number of processes calling the function
    local_path,           \* the file at local_path: "absent", "partial" or "complete"
    load_pc,              \* [rank -> its position in load_stylegan2_model]
    barrier_entered,      \* the ranks that have called torch.distributed.barrier()
    downloaded_by,        \* the ranks that have called download_file
    file_read,            \* [rank -> the state of the file when the rank verified it, or "none"]
    \* ---- generate_initial_perturbations (attack/attacks.py) ----
    gip_num_steps,        \* the num_steps argument
    gip_max_delta,        \* the max_delta argument
    gip_images,           \* images: the candidate, one value per element
    gip_original_images,  \* original_images
    training_at_call,     \* surrogate_decoder.training when the function was called
    surrogate_training,   \* surrogate_decoder.training
    decoder_training,     \* decoder.training
    gip_step,             \* the loop variable step
    k_surrogate,          \* k_surrogate: what autograd recorded for it
    gip_loss,             \* loss: what autograd recorded for it
    best_perturbation,    \* best_perturbation: None or a candidate
    best_k_scores,        \* best_k_scores: None or the scores of a candidate
    min_k_score,          \* min_k_score
    prev_k_score,         \* prev_k_score
    plateau_count,        \* plateau_count
    gip_error,            \* the exception that ended the call, or "none"
    gip_pc                \* the position in generate_initial_perturbations

constrainVars == <<x_M_hat, x_M, max_delta, x_M_hat_constrained, constrain_pc>>
csprngVars == <<key, num_bytes, result, counter, csprng_pc, csprng_out>>

maskVars ==
    <<py_random, torch_rng, k_mask, mask_seed, images, masked, surrogate, cnn_error>>

pgdVars ==
    <<attack_type, num_steps, alpha_values, image_attack, attack_batch_size,
      pgd_max_delta, surrogate_decoders, ensemble_weights, alpha_idx, batch_idx,
      step, image_attack_batch, original_images, momentum_buffer, k_attack_batch,
      k_attack_scores_alpha, k_attack_scores_mean, k_attack_scores_std,
      pgd_events, mask_generated, pgd_log, pgd_error, pgd_pc>>

fineTuneVars ==
    <<ft_epochs, ft_num_batches, tensor_storage, best_loss, best_model_state,
      ft_epoch, ft_i, ft_history, ft_pc>>

mainVars ==
    <<checkpoint_params, surrogate_decoder_folder, train_surrogate, surrogate_paths,
      path_idx, main_surrogate_decoders, main_loads, main_log, main_error, main_pc>>

trainVars ==
    <<world_size, tr_epochs, tr_num_batches, local_avg_loss, rank_pc, rank_epoch,
      rank_batch_idx, reduce_entered, reduce_returned, global_avg_loss, tr_log,
      tr_files>>

\* The variables of the subsystems of the first four specifications, and of
\* the later ones.
loadVars ==
    <<load_initialized, load_world, local_path, load_pc, barrier_entered,
      downloaded_by, file_read>>

gipVars ==
    <<gip_num_steps, gip_max_delta, gip_images, gip_original_images, training_at_call,
      surrogate_training, decoder_training, gip_step, k_surrogate, gip_loss,
      best_perturbation, best_k_scores, min_k_score, prev_k_score, plateau_count,
      gip_error, gip_pc>>

earlyVars == <<constrainVars, csprngVars, maskVars, pgdVars>>
lateVars == <<fineTuneVars, mainVars, trainVars, loadVars, gipVars>>

vars == <<earlyVars, lateVars>>

-----------------------------------------------------------------------------
(***************************************************************************)
(* Bounds of the model.                                                    *)
(***************************************************************************)
\* Pixel values of the images drawn as inputs lie in -MaxVal .. MaxVal.
MaxVal == 1
\* Spatial positions (height x width, flattened) of an image.
NPix == 2
\* max_delta is drawn from 0 .. MaxDelta.
MaxDelta == 2

\* generate_csprng_bytes is asked for 0 .. MaxNumBytes bytes.
MaxNumBytes == 66
\* The number of calls of generate_csprng_bytes in one run.
MaxCalls == 2
\* The number of optimizer steps of the surrogate training.
MaxTrainSteps == 1
\* perform_pgd_attack: num_steps is drawn from 0 .. MaxSteps, alpha_values has
\* 0 .. MaxAlphas entries, image_attack has MaxImages images, the batch size
\* is drawn from 1 .. MaxBatch and there are 1 .. MaxSurrogates surrogates.
MaxSteps == 2
MaxAlphas == 2
MaxImages == 3
MaxBatch == 2
MaxSurrogates == 2

\* The channels of an image.  Two channels tell a per-channel reduction
\* (dim=(2, 3)) from a per-sample one (dim=(1, 2, 3)).
Chan == {1, 2}
Pix == 1..NPix

-----------------------------------------------------------------------------
(***************************************************************************)
(* Floating-point values.  A tensor element is an exact rational n/d, or   *)
(* one of the IEEE special values the division of torch produces: x/0 is   *)
(* +inf or -inf for x # 0 and NaN for x = 0; NaN propagates through every  *)
(* arithmetic operation and through clamp, and every comparison with NaN   *)
(* is false.  Rounding is not modelled.                                    *)
(***************************************************************************)
Abs(i) == IF i < 0 THEN -i ELSE i

RECURSIVE GCD(_, _)
GCD(a, b) == IF b = 0 THEN a ELSE GCD(b, a % b)

Rat(n, d) ==
    LET g == GCD(Abs(n), d)
    IN  [k |-> "fin", n |-> n \div g, d |-> d \div g]

Fin(i) == [k |-> "fin", n |-> i, d |-> 1]
NaN == [k |-> "nan", n |-> 0, d |-> 1]
PInf == [k |-> "inf", n |-> 1, d |-> 1]
NInf == [k |-> "inf", n |-> -1, d |-> 1]

IsFinite(a) == a.k = "fin"
IsNaN(a) == a.k = "nan"
Sign(a) == IF a.n > 0 THEN 1 ELSE IF a.n < 0 THEN -1 ELSE 0

FNeg(a) == [a EXCEPT !.n = -a.n]

FAdd(a, b) ==
    IF IsNaN(a) \/ IsNaN(b) THEN NaN
    ELSE IF IsFinite(a) /\ IsFinite(b) THEN Rat(a.n * b.d + b.n * a.d, a.d * b.d)
    ELSE IF IsFinite(a) THEN b
    ELSE IF IsFinite(b) THEN a
    ELSE IF a.n = b.n THEN a ELSE NaN

FSub(a, b) == FAdd(a, FNeg(b))

FMul(a, b) ==
    IF IsNaN(a) \/ IsNaN(b) THEN NaN
    ELSE IF IsFinite(a) /\ IsFinite(b) THEN Rat(a.n * b.n, a.d * b.d)
    ELSE IF Sign(a) * Sign(b) = 0 THEN NaN
    ELSE IF Sign(a) * Sign(b) > 0 THEN PInf ELSE NInf

FDiv(a, b) ==
    IF IsNaN(a) \/ IsNaN(b) THEN NaN
    ELSE IF IsFinite(a) /\ IsFinite(b) THEN
        IF b.n = 0 THEN (IF a.n = 0 THEN NaN ELSE IF a.n > 0 THEN PInf ELSE NInf)
        ELSE IF b.n > 0 THEN Rat(a.n * b.d, a.d * b.n)
        ELSE Rat(-(a.n * b.d), a.d * (-b.n))
    ELSE IF IsFinite(b) THEN (IF (Sign(a) < 0) = (b.n < 0) THEN PInf ELSE NInf)
    ELSE IF IsFinite(a) THEN Fin(0)
    ELSE NaN

\* a <= b; false when either side is NaN.
FLe(a, b) ==
    IF IsNaN(a) \/ IsNaN(b) THEN FALSE
    ELSE IF IsFinite(a) /\ IsFinite(b) THEN a.n * b.d <= b.n * a.d
    ELSE IF IsFinite(a) THEN b.n > 0
    ELSE IF IsFinite(b) THEN a.n < 0
    ELSE a.n <= b.n

FAbs(a) == [a EXCEPT !.n = Abs(a.n)]

\* min and max of two elements as torch.amin / torch.amax reduce: NaN wins.
FMin2(a, b) == IF IsNaN(a) \/ IsNaN(b) THEN NaN ELSE IF FLe(a, b) THEN a ELSE b
FMax2(a, b) == IF IsNaN(a) \/ IsNaN(b) THEN NaN ELSE IF FLe(a, b) THEN b ELSE a

\* torch.clamp(x, min=lo, max=hi): min(max(x, lo), hi), NaN stays NaN.
FClamp(x, lo, hi) ==
    IF IsNaN(x) THEN NaN
    ELSE IF FLe(x, lo) THEN lo
    ELSE IF FLe(hi, x) THEN hi
    ELSE x

\* Reductions of a function f over the finite set S of its arguments.
RECURSIVE FSumOver(_, _)
FSumOver(f, S) ==
    IF S = {} THEN Fin(0)
    ELSE LET s == CHOOSE s \in S : TRUE
         IN  FAdd(f[s], FSumOver(f, S \ {s}))

RECURSIVE FMinOver(_, _)
FMinOver(f, S) ==
    LET s == CHOOSE s \in S : TRUE
    IN  IF S = {s} THEN f[s] ELSE FMin2(f[s], FMinOver(f, S \ {s}))

RECURSIVE FMaxOver(_, _)
FMaxOver(f, S) ==
    LET s == CHOOSE s \in S : TRUE
    IN  IF S = {s} THEN f[s] ELSE FMax2(f[s], FMaxOver(f, S \ {s}))

FMean(f, S) == FDiv(FSumOver(f, S), Fin(Cardinality(S)))

\* An integer-valued image as a tensor of floats.
ToFloat(img) == [c \in Chan |-> [p \in Pix |-> Fin(img[c][p])]]

\* The candidate images: every pixel value in -MaxVal .. MaxVal.
Images == [Chan -> [Pix -> (-MaxVal)..MaxVal]]
\* The reference images: channel c has base value c - 1 and is flat (s = 0)
\* or alternates over the spatial positions (s = 1).
RefImages == {[c \in Chan |-> [p \in Pix |-> (c - 1) + s * (p % 2)]] : s \in {0, 1}}
\* The batches of the data loader, in its order: a base value in
\* -MaxVal..MaxVal, constant or alternating over the spatial positions, the
\* channels equal or one apart.
DatasetSize == 4 * (2 * MaxVal + 1)
Dataset(n) ==
    [c \in Chan |-> [p \in Pix |->
        ((n \div 4) - MaxVal) + ((n \div 2) % 2) * (p % 2) + (n % 2) * (c - 1)]]
MaskImages == {Dataset(n) : n \in 0..(DatasetSize - 1)}
BatchIndex(img) == CHOOSE n \in 0..(DatasetSize - 1) : Dataset(n) = img
ZeroImage == [c \in Chan |-> [p \in Pix |-> Fin(0)]]


-----------------------------------------------------------------------------
(***************************************************************************)
(* constrain_image(x_M_hat, x_M, max_delta).  The reductions run over      *)
(* dim=(2, 3): one mean, one min and one max per sample and channel.       *)
(* The model carries one sample; the samples of a batch do not interact.   *)
(***************************************************************************)
\* A mutant of constrain_image: the mean, the minima and the maxima are taken
\* once per sample, over every channel and spatial position.
constrain_image_per_sample(cand, ref, md) ==
    LET Elems == Chan \X Pix
        delta == [e \in Elems |-> FSub(cand[e[1]][e[2]], ref[e[1]][e[2]])]
        delta_mean == FMean(delta, Elems)
        delta_adjusted == [e \in Elems |-> FSub(delta[e], delta_mean)]
        delta_range == FSub(FMaxOver(delta, Elems), FMinOver(delta, Elems))
        delta_adjusted_range ==
            FSub(FMaxOver(delta_adjusted, Elems), FMinOver(delta_adjusted, Elems))
    IN  [c \in Chan |-> [p \in Pix |->
            FAdd(ref[c][p],
                 FClamp(FMul(delta_adjusted[<<c, p>>],
                             FDiv(delta_range, delta_adjusted_range)),
                        FNeg(md), md))]]

constrain_image(cand, ref, md) ==
    LET delta == [c \in Chan |-> [p \in Pix |-> FSub(cand[c][p], ref[c][p])]]
        delta_mean == [c \in Chan |-> FMean(delta[c], Pix)]
        delta_adjusted == [c \in Chan |-> [p \in Pix |-> FSub(delta[c][p], delta_mean[c])]]
        delta_min == [c \in Chan |-> FMinOver(delta[c], Pix)]
        delta_max == [c \in Chan |-> FMaxOver(delta[c], Pix)]
        delta_range == [c \in Chan |-> FSub(delta_max[c], delta_min[c])]
        delta_adjusted_min == [c \in Chan |-> FMinOver(delta_adjusted[c], Pix)]
        delta_adjusted_max == [c \in Chan |-> FMaxOver(delta_adjusted[c], Pix)]
        delta_adjusted_range ==
            [c \in Chan |-> FSub(delta_adjusted_max[c], delta_adjusted_min[c])]
        delta_adjusted_scaled ==
            [c \in Chan |-> [p \in Pix |->
                FMul(delta_adjusted[c][p], FDiv(delta_range[c], delta_adjusted_range[c]))]]
        delta_clipped ==
            [c \in Chan |-> [p \in Pix |->
                FClamp(delta_adjusted_scaled[c][p], FNeg(md), md)]]
    IN  [c \in Chan |-> [p \in Pix |-> FAdd(ref[c][p], delta_clipped[c][p])]]

-----------------------------------------------------------------------------
(***************************************************************************)
(* Bytes and the library primitives of the key derivation.  hashlib and    *)
(* hmac are libraries: SHA-256 is modelled by a stand-in digest of the     *)
(* same shape (any byte string to DigestSize bytes), HMAC by its           *)
(* construction over that digest (RFC 2104), key normalisation included.   *)
(***************************************************************************)
Byte == 0..255
\* hashlib.sha256: digest_size and block_size.
DigestSize == 32
HmacBlockSize == 64
\* counter.to_bytes(4, byteorder='big')
CounterLen == 4

RECURSIVE Pow(_, _)
Pow(b, e) == IF e = 0 THEN 1 ELSE b * Pow(b, e - 1)

RECURSIVE XorBits(_, _, _)
XorBits(a, b, bits) ==
    IF bits = 0 THEN 0
    ELSE (((a % 2) + (b % 2)) % 2) + 2 * XorBits(a \div 2, b \div 2, bits - 1)

\* a ^ b on bytes, tabulated once.
XorTable == [a \in Byte |-> [b \in Byte |-> XorBits(a, b, 8)]]
Xor(a, b) == XorTable[a][b]

RepeatByte(b, n) == [i \in 1..n |-> b]

\* Sums over the bytes s[lo..hi], by halves.
RECURSIVE WeightedSum(_, _, _)
WeightedSum(s, lo, hi) ==
    IF lo > hi THEN 0
    ELSE IF lo = hi THEN ((lo + 1) * s[lo]) % 65521
    ELSE LET mid == (lo + hi) \div 2
         IN  (WeightedSum(s, lo, mid) + WeightedSum(s, mid + 1, hi)) % 65521

RECURSIVE PlainSum(_, _, _)
PlainSum(s, lo, hi) ==
    IF lo > hi THEN 0
    ELSE IF lo = hi THEN s[lo]
    ELSE LET mid == (lo + hi) \div 2
         IN  (PlainSum(s, lo, mid) + PlainSum(s, mid + 1, hi)) % 65521

\* The stand-in for hashlib.sha256(s).digest().
Sha256(s) ==
    LET a == PlainSum(s, 1, Len(s))
        b == WeightedSum(s, 1, Len(s))
    IN  [j \in 1..DigestSize |-> (a * (2 * j + 1) + b * (j + 3) + 7 * Len(s) + j * j) % 256]

\* The key as HMAC uses it: hashed when longer than the block, then padded
\* with zero bytes to the block size.
HmacKeyBlock(k) ==
    LET k0 == IF Len(k) > HmacBlockSize THEN Sha256(k) ELSE k
    IN  k0 \o RepeatByte(0, HmacBlockSize - Len(k0))

\* hmac.new(key, msg, hashlib.sha256).digest()
HmacSha256(k, msg) ==
    LET kb == HmacKeyBlock(k)
        ipad == [i \in 1..HmacBlockSize |-> Xor(kb[i], 54)]
        opad == [i \in 1..HmacBlockSize |-> Xor(kb[i], 92)]
    IN  Sha256(opad \o Sha256(ipad \o msg))

\* int.to_bytes(length, byteorder='little'): a mutant of ToBytesBig.
ToBytesLittle(n, length) ==
    [i \in 1..length |-> (n \div Pow(256, i - 1)) % 256]

\* int.to_bytes(length, byteorder='big')
ToBytesBig(n, length) ==
    [i \in 1..length |-> (n \div Pow(256, length - i)) % 256]

-----------------------------------------------------------------------------
(***************************************************************************)
(* generate_csprng_bytes(key, num_bytes): HMAC-SHA256 in counter mode.     *)
(* One action per step of the function: entry, one loop iteration, return. *)
(***************************************************************************)
\* The keys the function is called with: the two keys of the tests
\* (b'0' * 32, b'1' * 32), the first with a zero byte appended, a one-byte
\* key and the empty key.
CsprngKeys ==
    { RepeatByte(48, 32), RepeatByte(49, 32), RepeatByte(48, 32) \o <<0>>,
      RepeatByte(48, 1), <<>> }

\* A mutant of CsprngEntry: the counter survives from the previous call.
CsprngEntryKeepCounter(prev) == [result |-> <<>>, counter |-> prev]

\* Lines 18-19: the locals at entry (prev: the counter the previous call left).
CsprngEntry(prev) == [result |-> <<>>, counter |-> 0]

\* A mutant of CsprngBlock: the key does not enter the block.
CsprngBlockKeyless(k, c) == HmacSha256(<<>>, ToBytesBig(c, CounterLen))

\* Lines 24-28: the block of one iteration.
CsprngBlock(k, c) == HmacSha256(k, ToBytesBig(c, CounterLen))

\* A mutant of CsprngTruncate: the whole buffer is returned.
CsprngNoTruncate(r, n) == r

\* Line 35: bytes(result[:num_bytes])
CsprngTruncate(r, n) == SubSeq(r, 1, IF n < Len(r) THEN n ELSE Len(r))

-----------------------------------------------------------------------------
(***************************************************************************)
(* CryptoCNN (utils/key.py): five 3x3 convolutions whose parameters are    *)
(* the ChaCha20 encryption of a fixed seed block under the binary key.     *)
(*                                                                         *)
(* numpy's default_rng(seed=0).bytes and the ChaCha20 key stream are       *)
(* library functions; they are modelled by fixed stand-in byte streams     *)
(* (the first a function of the position, the second of the key, the       *)
(* nonce and the position).  A 32-bit word is carried as its four          *)
(* big-endian bytes, and a parameter as the word it was scaled from with   *)
(* its fan-in: the value (2 * word / 0xFFFFFFFF - 1) / sqrt(fan_in).       *)
(***************************************************************************)
\* The channel width of the hidden layers (64 in the source, scaled down).
HiddenWidth == 1
\* kernel_size=3
KernelSize == 3
\* binary_key[:32]: the ChaCha20 key length.
ChaChaKeyLen == 32
\* 4 bytes per float32
BytesPerParam == 4

Layers == 1..5
in_channels(l, input_channels) == IF l = 1 THEN input_channels ELSE HiddenWidth
out_channels(l, output_channels) == IF l = 5 THEN output_channels ELSE HiddenWidth

\* np.prod(layer.weight.shape), weight.shape = (out, in, kH, kW)
weight_size(l, ic, oc) ==
    out_channels(l, oc) * in_channels(l, ic) * KernelSize * KernelSize
\* np.prod(layer.bias.shape)
bias_size(l, ic, oc) == out_channels(l, oc)
\* fan_in = layer.in_channels * kernel_size[0] * kernel_size[1]
fan_in(l, ic) == in_channels(l, ic) * KernelSize * KernelSize

\* A mutant of pointer_at: the pointer moves past the weights only.
RECURSIVE pointer_past_weights(_, _, _)
pointer_past_weights(l, ic, oc) ==
    IF l = 1 THEN 0
    ELSE pointer_past_weights(l - 1, ic, oc) + weight_size(l - 1, ic, oc)

\* `pointer` when the loop of _init_layers_with_scaling reaches layer l.
RECURSIVE pointer_at(_, _, _)
pointer_at(l, ic, oc) ==
    IF l = 1 THEN 0
    ELSE pointer_at(l - 1, ic, oc) + weight_size(l - 1, ic, oc) + bias_size(l - 1, ic, oc)

\* sum(p.numel() for p in self.parameters() if p.requires_grad)
total_params(ic, oc) == pointer_at(5, ic, oc) + weight_size(5, ic, oc) + bias_size(5, ic, oc)

\* np.random.default_rng(seed=0).bytes(n): byte i of the fixed seed block.
SeedByte(i) == (7 * i * i + 13 * i + 5) % 256

\* ChaCha20.new(key, nonce): the cipher state the key stream is a function of.
ChaCha20New(k, nonce) ==
    [a |-> PlainSum(k, 1, Len(k)),
     b |-> WeightedSum(k, 1, Len(k)),
     c |-> PlainSum(nonce, 1, Len(nonce))]

\* Byte i (from 0) of the key stream of a cipher.
ChaCha20KeyStream(cipher, i) ==
    (cipher.a * (2 * i + 1) + cipher.b * (i + 3) + cipher.c + 5 * i * i) % 256

\* ChaCha20.new(key=..., nonce=...): the library takes keys of 32 bytes only
\* and raises ValueError otherwise.
ChaCha20KeyAccepted(k) == Len(k) = ChaChaKeyLen

\* cipher.encrypt(seed), seed the first n bytes of the fixed seed block.
Encrypt(cipher, n) ==
    [i \in 1..n |-> Xor(SeedByte(i - 1), ChaCha20KeyStream(cipher, i - 1))]

\* np.frombuffer(ciphertext, dtype='>u4')[j] / 0xFFFFFFFF, for j from 0: the
\* word as its four big-endian bytes.
normalized_floats(ciphertext, j) ==
    [b \in 1..BytesPerParam |-> ciphertext[BytesPerParam * j + b]]

\* (value * 2 * bound) - bound with bound = 1 / sqrt(fan_in)
ScaledParam(word, f) == [src |-> "key", w |-> word, fan_in |-> f]

\* The value nn.Conv2d's own initialisation draws from torch's generator.
TorchParam(state, l, kind, i, f) == [src |-> "torch", w |-> <<state, l, kind, i>>, fan_in |-> f]

\* A mutant of InitLayerBias: the biases keep nn.Conv2d's random initialisation.
InitLayerBiasSkipped(net, ciphertext, l, ic, oc) == net.bias[l]

\* Lines 69-74: the biases of layer l.
InitLayerBias(net, ciphertext, l, ic, oc) ==
    LET pointer == pointer_at(l, ic, oc) + weight_size(l, ic, oc)
    IN  [i \in 1..bias_size(l, ic, oc) |->
            ScaledParam(normalized_floats(ciphertext, pointer + i - 1), fan_in(l, ic))]

\* Lines 62-66: the weights of layer l, flattened in the order of reshape.
InitLayerWeight(net, ciphertext, l, ic, oc) ==
    LET pointer == pointer_at(l, ic, oc)
    IN  [i \in 1..weight_size(l, ic, oc) |->
            ScaledParam(normalized_floats(ciphertext, pointer + i - 1), fan_in(l, ic))]

\* A network no variable holds yet.
NoNet ==
    [built |-> FALSE, binary_key |-> <<>>,
     weight |-> [l \in Layers |-> <<>>], bias |-> [l \in Layers |-> <<>>],
     requires_grad |-> [l \in Layers |-> [weight |-> FALSE, bias |-> FALSE]]]

\* Lines 24-28: the layers as nn.Conv2d constructs them, initialised from
\* torch's global generator in state `state`, every parameter trainable.
ConvLayers(ic, oc, state) ==
    [built |-> TRUE, binary_key |-> <<>>,
     weight |-> [l \in Layers |->
        [i \in 1..weight_size(l, ic, oc) |-> TorchParam(state, l, 0, i, fan_in(l, ic))]],
     bias |-> [l \in Layers |->
        [i \in 1..bias_size(l, ic, oc) |-> TorchParam(state, l, 1, i, fan_in(l, ic))]],
     requires_grad |-> [l \in Layers |-> [weight |-> TRUE, bias |-> TRUE]]]

\* _init_layers_with_scaling(binary_key), for a key ChaCha20 accepts.
init_layers_with_scaling(net, binary_key) ==
    LET chacha_key == SubSeq(binary_key, 1,
                             IF Len(binary_key) < ChaChaKeyLen THEN Len(binary_key)
                             ELSE ChaChaKeyLen)
        nonce == RepeatByte(0, 8)
        ic == in_channels(1, Cardinality(Chan))
        oc == out_channels(5, Cardinality(Chan))
        cipher == ChaCha20New(chacha_key, nonce)
        ciphertext == Encrypt(cipher, total_params(ic, oc) * BytesPerParam)
    IN  [net EXCEPT
            !.binary_key = binary_key,
            !.weight = [l \in Layers |-> InitLayerWeight(net, ciphertext, l, ic, oc)],
            !.bias = [l \in Layers |-> InitLayerBias(net, ciphertext, l, ic, oc)]]

\* CryptoCNN(input_channels, output_channels, binary_key): the network, or
\* the exception of ChaCha20.new.
CryptoCNN(ic, oc, binary_key, state) ==
    IF ChaCha20KeyAccepted(SubSeq(binary_key, 1,
            IF Len(binary_key) < ChaChaKeyLen THEN Len(binary_key) ELSE ChaChaKeyLen))
    THEN [error |-> "none", net |-> init_layers_with_scaling(ConvLayers(ic, oc, state), binary_key)]
    ELSE [error |-> "InvalidKeyLength", net |-> NoNet]

\* torch's global generator after the ten parameter tensors were drawn.
TorchStates == 0..1
TorchNext(state) == (state + 1) % 2

(***************************************************************************)
(* Python's global random generator.  Its state is one of RngMod values;   *)
(* random.seed sets it from the seed alone, every draw advances it.        *)
(***************************************************************************)
RngMod == 4
PyStates == 0..(RngMod - 1)
PyNext(state) == (state + 1) % RngMod

\* A mutant of PySeed: the generator is not re-seeded.
PySeedSkipped(state, seed) == state

\* random.seed(seed)
PySeed(state, seed) == seed % RngMod

\* random.getrandbits(256).to_bytes(32, 'big') in state `state`.
GetRandBits256(state) == [j \in 1..32 |-> (37 * state * (2 * j + 1) + 11 * j + state) % 256]

\* A mutant of Freeze: the parameters stay trainable.
FreezeSkipped(net) == net

\* Lines 108-109: param.requires_grad = False for every parameter.
Freeze(net) ==
    [net EXCEPT !.requires_grad = [l \in Layers |-> [weight |-> FALSE, bias |-> FALSE]]]

\* generate_mask_secret_key(image_shape, seed, device): the network with the
\* two generators as the call leaves them.
generate_mask_secret_key(channels, seed, py, trng) ==
    LET seeded == PySeed(py, seed)
        binary_key == GetRandBits256(seeded)
        cnn == CryptoCNN(channels, channels, binary_key, trng)
    IN  [mask_generator |-> Freeze(cnn.net),
         py_random |-> PyNext(seeded),
         torch_rng |-> TorchNext(trng)]

(***************************************************************************)
(* mask_image_with_key(images, cnn_key).  torch's conv2d and relu are      *)
(* library functions: forward builds the term of their applications, so    *)
(* two results are equal exactly when the same operations were applied to  *)
(* the same parameters and the same normalised image.                      *)
(***************************************************************************)
\* 1e-8, as 1 / EpsDen
EpsDen == 100000000
Eps == Rat(1, EpsDen)

AllElems == Chan \X Pix
Flat(img) == [e \in AllElems |-> img[e[1]][e[2]]]

\* A mutant of MaskDenominator: no epsilon.
MaskDenominatorNoEps(img) ==
    FSub(FMaxOver(Flat(img), AllElems), FMinOver(Flat(img), AllElems))

\* images_max - images_min + 1e-8, the extrema over dim=(1, 2, 3)
MaskDenominator(img) ==
    FAdd(FSub(FMaxOver(Flat(img), AllElems), FMinOver(Flat(img), AllElems)), Eps)

\* Line 130
MaskNormalize(img) ==
    LET images_min == FMinOver(Flat(img), AllElems)
    IN  [c \in Chan |-> [p \in Pix |->
            FDiv(FSub(img[c][p], images_min), MaskDenominator(img))]]

Conv2d(net, l, x) == [op |-> "conv2d", w |-> net.weight[l], b |-> net.bias[l], x |-> x]
Relu(x) == [op |-> "relu", x |-> x]

\* CryptoCNN.forward
forward(net, x) ==
    LET x1 == Relu(Conv2d(net, 1, x))
        x2 == Relu(Conv2d(net, 2, x1))
        x3 == Relu(Conv2d(net, 3, x2))
        x4 == Relu(Conv2d(net, 4, x3))
    IN  Conv2d(net, 5, x4)

mask_image_with_key(img, cnn_key) ==
    LET normalized == MaskNormalize(ToFloat(img))
    IN  [done |-> TRUE, img |-> img, normalized |-> normalized,
         out |-> forward(cnn_key, normalized)]

NotMasked ==
    [done |-> FALSE, img |-> [c \in Chan |-> [p \in Pix |-> 0]],
     normalized |-> ZeroImage, out |-> <<>>]

-----------------------------------------------------------------------------
(***************************************************************************)
(* The idle values of each subsystem's variables, and what each            *)
(* specification leaves unchanged.                                         *)
(***************************************************************************)
Slot == {1, 2}
\* seed 2024 (attack/attacks.py:549, the default seed_key) and another one.
Seeds == {2024, 2025}
\* The seed of a variable no network was generated into.
NoSeed == 0

ConstrainIdle ==
    /\ x_M_hat = [c \in Chan |-> [p \in Pix |-> 0]]
    /\ x_M = [c \in Chan |-> [p \in Pix |-> 0]]
    /\ max_delta = 0
    /\ x_M_hat_constrained = ZeroImage
    /\ constrain_pc = "off"

CsprngIdle ==
    /\ key = <<>>
    /\ num_bytes = 0
    /\ result = <<>>
    /\ counter = 0
    /\ csprng_pc = "off"
    /\ csprng_out = <<>>

MaskIdle ==
    /\ py_random = 0
    /\ torch_rng = 0
    /\ k_mask = [s \in Slot |-> NoNet]
    /\ mask_seed = [s \in Slot |-> NoSeed]
    /\ images = [c \in Chan |-> [p \in Pix |-> 0]]
    /\ masked = [s \in Slot |-> NotMasked]
    /\ surrogate = 0
    /\ cnn_error = "none"

PgdIdle ==
    /\ attack_type = "none"
    /\ num_steps = 0
    /\ alpha_values = <<>>
    /\ image_attack = <<>>
    /\ attack_batch_size = 1
    /\ pgd_max_delta = 0
    /\ surrogate_decoders = <<>>
    /\ ensemble_weights = <<>>
    /\ alpha_idx = 0
    /\ batch_idx = 0
    /\ step = 0
    /\ image_attack_batch = <<>>
    /\ original_images = <<>>
    /\ momentum_buffer = <<>>
    /\ k_attack_batch = <<>>
    /\ k_attack_scores_alpha = <<>>
    /\ k_attack_scores_mean = <<>>
    /\ k_attack_scores_std = <<>>
    /\ pgd_events = <<>>
    /\ mask_generated = <<>>
    /\ pgd_log = <<>>
    /\ pgd_error = "none"
    /\ pgd_pc = "off"


\* None
None == [none |-> TRUE]

FineTuneIdle ==
    /\ ft_epochs = 0
    /\ ft_num_batches = 0
    /\ tensor_storage = <<>>
    /\ best_loss = PInf
    /\ best_model_state = None
    /\ ft_epoch = 0
    /\ ft_i = 0
    /\ ft_history = <<>>
    /\ ft_pc = "off"

MainIdle ==
    /\ checkpoint_params = <<>>
    /\ surrogate_decoder_folder = None
    /\ train_surrogate = FALSE
    /\ surrogate_paths = <<>>
    /\ path_idx = 0
    /\ main_surrogate_decoders = <<>>
    /\ main_loads = <<>>
    /\ main_log = <<>>
    /\ main_error = "none"
    /\ main_pc = "off"

TrainIdle ==
    /\ world_size = 0
    /\ tr_epochs = 0
    /\ tr_num_batches = 0
    /\ local_avg_loss = <<>>
    /\ rank_pc = <<>>
    /\ rank_epoch = <<>>
    /\ rank_batch_idx = <<>>
    /\ reduce_entered = <<>>
    /\ reduce_returned = <<>>
    /\ global_avg_loss = <<>>
    /\ tr_log = <<>>
    /\ tr_files = {}

LoadIdle ==
    /\ load_initialized = FALSE
    /\ load_world = 0
    /\ local_path = "absent"
    /\ load_pc = <<>>
    /\ barrier_entered = {}
    /\ downloaded_by = {}
    /\ file_read = <<>>

\* What autograd holds for a tensor no operation has produced yet.
NoTensor == [requires_grad |-> FALSE, through |-> {}]

GipIdle ==
    /\ gip_num_steps = 0
    /\ gip_max_delta = 0
    /\ gip_images = <<>>
    /\ gip_original_images = <<>>
    /\ training_at_call = FALSE
    /\ surrogate_training = FALSE
    /\ decoder_training = FALSE
    /\ gip_step = 0
    /\ k_surrogate = NoTensor
    /\ gip_loss = NoTensor
    /\ best_perturbation = None
    /\ best_k_scores = None
    /\ min_k_score = PInf
    /\ prev_k_score = PInf
    /\ plateau_count = 0
    /\ gip_error = "none"
    /\ gip_pc = "off"

EarlyIdle == ConstrainIdle /\ CsprngIdle /\ MaskIdle /\ PgdIdle
LateIdle == FineTuneIdle /\ MainIdle /\ TrainIdle /\ LoadIdle /\ GipIdle
-----------------------------------------------------------------------------
(***************************************************************************)
(* SpecConstrain: one call of constrain_image on drawn inputs.             *)
(***************************************************************************)
ConstrainInit ==
    /\ LateIdle
    /\ CsprngIdle
    /\ MaskIdle
    /\ PgdIdle
    /\ x_M_hat \in Images
    /\ x_M \in RefImages
    /\ max_delta \in 0..MaxDelta
    /\ x_M_hat_constrained = ZeroImage
    /\ constrain_pc = "input"

ConstrainCall ==
    /\ constrain_pc = "input"
    /\ x_M_hat_constrained' =
           constrain_image(ToFloat(x_M_hat), ToFloat(x_M), Fin(max_delta))
    /\ constrain_pc' = "returned"
    /\ UNCHANGED <<x_M_hat, x_M, max_delta>>
    /\ UNCHANGED <<csprngVars, maskVars, pgdVars, lateVars>>

ConstrainNext == ConstrainCall

SpecConstrain == ConstrainInit /\ [][ConstrainNext]_vars

-----------------------------------------------------------------------------
(***************************************************************************)
(* SpecKdf: the two key derivations.  generate_csprng_bytes is called up   *)
(* to MaxCalls times, each time with a key of CsprngKeys, for the same     *)
(* number of bytes; or a CryptoCNN is constructed directly from one of     *)
(* these keys.  The two constructions share no state, so a run uses one.   *)
(***************************************************************************)
KdfInit ==
    /\ LateIdle
    /\ ConstrainIdle
    /\ MaskIdle
    /\ PgdIdle
    /\ key = <<>>
    /\ num_bytes \in 0..MaxNumBytes
    /\ result = <<>>
    /\ counter = 0
    /\ csprng_pc = "idle"
    /\ csprng_out = <<>>

CsprngCall ==
    /\ csprng_pc = "idle"
    /\ ~k_mask[1].built
    /\ cnn_error = "none"
    /\ Len(csprng_out) < MaxCalls
    /\ key' \in CsprngKeys
    /\ result' = CsprngEntry(counter).result
    /\ counter' = CsprngEntry(counter).counter
    /\ csprng_pc' = "loop"
    /\ UNCHANGED <<num_bytes, csprng_out>>
    /\ UNCHANGED <<constrainVars, maskVars, pgdVars, lateVars>>

CsprngIterate ==
    /\ csprng_pc = "loop"
    /\ Len(result) < num_bytes
    /\ result' = result \o CsprngBlock(key, counter)
    /\ counter' = counter + 1
    /\ UNCHANGED <<key, num_bytes, csprng_pc, csprng_out>>
    /\ UNCHANGED <<constrainVars, maskVars, pgdVars, lateVars>>

CsprngReturn ==
    /\ csprng_pc = "loop"
    /\ ~(Len(result) < num_bytes)
    /\ csprng_out' = Append(csprng_out,
            [key |-> key, num_bytes |-> num_bytes, error |-> "none",
             out |-> CsprngTruncate(result, num_bytes)])
    /\ csprng_pc' = "idle"
    /\ UNCHANGED <<key, num_bytes, result, counter>>
    /\ UNCHANGED <<constrainVars, maskVars, pgdVars, lateVars>>

\* CryptoCNN(channels, channels, binary_key) on a key of the caller's.
CryptoCnnNew ==
    /\ csprng_pc = "idle"
    /\ csprng_out = <<>>
    /\ ~k_mask[1].built
    /\ cnn_error = "none"
    /\ \E k \in CsprngKeys :
         LET cnn == CryptoCNN(Cardinality(Chan), Cardinality(Chan), k, torch_rng)
         IN  /\ k_mask' = [k_mask EXCEPT ![1] = cnn.net]
             /\ cnn_error' = cnn.error
             /\ key' = k
             /\ torch_rng' = IF cnn.error = "none" THEN TorchNext(torch_rng) ELSE torch_rng
    /\ UNCHANGED <<num_bytes, result, counter, csprng_pc, csprng_out>>
    /\ UNCHANGED <<py_random, mask_seed, images, masked, surrogate>>
    /\ UNCHANGED <<constrainVars, pgdVars, lateVars>>

KdfNext == CsprngCall \/ CsprngIterate \/ CsprngReturn \/ CryptoCnnNew

SpecKdf == KdfInit /\ [][KdfNext]_vars

-----------------------------------------------------------------------------
(***************************************************************************)
(* SpecMask: mask networks are generated into two variables, images are    *)
(* masked batch after batch, and around that the random generators are     *)
(* drawn from and the surrogate decoder is trained.                        *)
(***************************************************************************)
\* optimizer.step() of torch.optim.Adagrad(surrogate_decoder.parameters()):
\* a network changes when the optimizer holds its parameters and they have
\* gradients.  `held` says whether the optimizer was built over `net`.
OptimizerStep(net, held) ==
    IF held /\ net.built
    THEN [net EXCEPT
            !.weight = [l \in Layers |->
                IF net.requires_grad[l].weight
                THEN [i \in DOMAIN net.weight[l] |-> [net.weight[l][i] EXCEPT !.src = "step"]]
                ELSE net.weight[l]],
            !.bias = [l \in Layers |->
                IF net.requires_grad[l].bias
                THEN [i \in DOMAIN net.bias[l] |-> [net.bias[l][i] EXCEPT !.src = "step"]]
                ELSE net.bias[l]]]
    ELSE net

\* The optimizers of the training loops hold the surrogate decoder (the
\* decoder, the watermarked model), never a mask network.
OptimizerHoldsMask == FALSE

MaskInit ==
    /\ LateIdle
    /\ ConstrainIdle
    /\ CsprngIdle
    /\ PgdIdle
    /\ py_random \in PyStates
    /\ torch_rng \in TorchStates
    /\ k_mask = [s \in Slot |-> NoNet]
    /\ mask_seed = [s \in Slot |-> NoSeed]
    /\ images \in MaskImages
    /\ masked = [s \in Slot |-> NotMasked]
    /\ surrogate = 0
    /\ cnn_error = "none"

\* k_mask = generate_mask_secret_key(images.shape, seed, device=device):
\* every call site passes the same seed each time it runs.
GenerateMask ==
    /\ \E s \in Slot, seed \in Seeds :
         /\ mask_seed[s] \in {NoSeed, seed}
         /\ mask_seed' = [mask_seed EXCEPT ![s] = seed]
         /\ LET g == generate_mask_secret_key(Cardinality(Chan), seed, py_random, torch_rng)
            IN  /\ k_mask' = [k_mask EXCEPT ![s] = g.mask_generator]
                /\ py_random' = g.py_random
                /\ torch_rng' = g.torch_rng
                /\ masked' = [masked EXCEPT ![s] = NotMasked]
    /\ UNCHANGED <<images, surrogate, cnn_error>>
    /\ UNCHANGED <<constrainVars, csprngVars, pgdVars, lateVars>>

\* Any other draw from Python's global generator.
PyRandomDraw ==
    /\ py_random' = PyNext(py_random)
    /\ UNCHANGED <<torch_rng, k_mask, mask_seed, images, masked, surrogate, cnn_error>>
    /\ UNCHANGED <<constrainVars, csprngVars, pgdVars, lateVars>>

\* torch.manual_seed / torch.randn: torch's global generator moves.
TorchDraw ==
    /\ torch_rng' = TorchNext(torch_rng)
    /\ UNCHANGED <<py_random, k_mask, mask_seed, images, masked, surrogate, cnn_error>>
    /\ UNCHANGED <<constrainVars, csprngVars, pgdVars, lateVars>>

\* mask_image_with_key(images, k_mask)
MaskImage ==
    /\ \E s \in Slot :
         /\ k_mask[s].built
         /\ masked' = [masked EXCEPT ![s] = mask_image_with_key(images, k_mask[s])]
    /\ UNCHANGED <<py_random, torch_rng, k_mask, mask_seed, images, surrogate, cnn_error>>
    /\ UNCHANGED <<constrainVars, csprngVars, pgdVars, lateVars>>

\* The next batch of the loader: new images, the results of the last batch
\* are dropped.
NextBatch ==
    /\ images' = Dataset((BatchIndex(images) + 1) % DatasetSize)
    /\ masked' = [s \in Slot |-> NotMasked]
    /\ UNCHANGED <<py_random, torch_rng, k_mask, mask_seed, surrogate, cnn_error>>
    /\ UNCHANGED <<constrainVars, csprngVars, pgdVars, lateVars>>

\* optimizer.zero_grad(); loss.backward(); optimizer.step() of the surrogate
\* training (attack/attacks.py:74-76).
TrainStep ==
    /\ surrogate < MaxTrainSteps
    /\ surrogate' = surrogate + 1
    /\ k_mask' = [s \in Slot |-> OptimizerStep(k_mask[s], OptimizerHoldsMask)]
    /\ UNCHANGED <<py_random, torch_rng, mask_seed, images, masked, cnn_error>>
    /\ UNCHANGED <<constrainVars, csprngVars, pgdVars, lateVars>>

MaskNext ==
    GenerateMask \/ PyRandomDraw \/ TorchDraw \/ MaskImage \/ NextBatch \/ TrainStep

SpecMask == MaskInit /\ [][MaskNext]_vars

-----------------------------------------------------------------------------
(***************************************************************************)
(* perform_pgd_attack (attack/attacks.py).  An image is one value; the     *)
(* surrogate decoders and the decoder are networks, so the gradient of a   *)
(* surrogate is one of a few fixed patterns over the batch and the         *)
(* decoder's output is the term of its application.                        *)
(***************************************************************************)
AttackTypes == {"base_baseline", "base_secure", "undefined_type"}
\* Line 548: the attack types scored through the mask.
SecureTypes == {"base_secure", "combined_secure", "fixed_secure"}

\* momentum: float = 0.9
Momentum == Rat(9, 10)

GradKinds == {"neg", "zero", "pos", "alt"}
\* image_attack_batch.grad after loss.backward() through one surrogate.
SurrogateGrad(kind, e) ==
    IF kind = "neg" THEN Fin(-1)
    ELSE IF kind = "zero" THEN Fin(0)
    ELSE IF kind = "pos" THEN Fin(1)
    ELSE IF e % 2 = 1 THEN Fin(1) ELSE Fin(-1)

\* A mutant of num_attack_batches: the count is rounded down.
num_attack_batches_floor == Len(image_attack) \div attack_batch_size

\* Line 503: the number of batches, rounded up.
num_attack_batches == (Len(image_attack) + attack_batch_size - 1) \div attack_batch_size

\* Lines 510-511: the bounds of the slice of batch batch_idx.
start_idx == batch_idx * attack_batch_size
end_idx ==
    IF (batch_idx + 1) * attack_batch_size < Len(image_attack)
    THEN (batch_idx + 1) * attack_batch_size
    ELSE Len(image_attack)

\* A mutant of DefaultWeights: every weight is 1.
DefaultWeightsOnes(n) == [i \in 1..n |-> Fin(1)]

\* Lines 497-498: [1.0 / len(surrogate_decoders)] * len(surrogate_decoders)
DefaultWeights(n) == [i \in 1..n |-> FDiv(Fin(1), Fin(n))]

\* torch.norm(t, p=1)
L1Norm(t) == FSumOver([e \in DOMAIN t |-> FAbs(t[e])], DOMAIN t)

\* torch.sign computes (0 < a) - (a < 0) from comparisons, both false for
\* NaN: it returns 0 for NaN (it does not propagate NaN as numpy.sign does).
FSign(a) == IF IsNaN(a) THEN Fin(0) ELSE Fin(Sign(a))

\* Lines 524-530: the weighted sum of the surrogates' gradients.
EnsembleGrad(batch) ==
    [e \in DOMAIN batch |->
        FSumOver([i \in DOMAIN surrogate_decoders |->
                     FMul(ensemble_weights[i], SurrogateGrad(surrogate_decoders[i], e))],
                 DOMAIN surrogate_decoders)]

\* Line 533: the momentum buffer.
MomentumUpdate(buffer, grad) ==
    [e \in DOMAIN buffer |->
        FAdd(FMul(Momentum, buffer[e]), FDiv(grad[e], L1Norm(grad)))]

\* A mutant of ClampToBudget: the candidate is not clamped.
ClampSkipped(x, orig, delta) == x

\* Lines 535-539: torch.clamp into the budget around the reference.
ClampToBudget(x, orig, delta) ==
    [e \in DOMAIN x |-> FClamp(x[e], FSub(orig[e], delta), FAdd(orig[e], delta))]

\* Line 534: the descent step.
Descend(batch, buffer, alpha) ==
    [e \in DOMAIN batch |-> FSub(batch[e], FMul(alpha, FSign(buffer[e])))]

\* decoder(x), decoder(mask_image_with_key(x, k_mask)) and the norm over dim=1.
Decoder(x, through_mask) == [op |-> "decoder", masked |-> through_mask, x |-> x]
ScoreOf(out) == [op |-> "norm", of |-> out]
\* np.mean and np.std of the scores of one alpha.
MeanOf(scores) == [op |-> "mean", of |-> scores]
StdOf(scores) == [op |-> "std", of |-> scores]

Event(name, i) == [ev |-> name, i |-> i]

\* A mutant of zeros_like: the buffer starts at one.
ones_like(t) == [e \in DOMAIN t |-> Fin(1)]

\* torch.zeros_like
zeros_like(t) == [e \in DOMAIN t |-> Fin(0)]

\* The step sizes alpha_values is drawn from, and the lists of distinct
\* step sizes in every order.
AlphaChoices == {Rat(i, 2) : i \in 1..MaxAlphas}
AlphaLists ==
    UNION {{s \in [1..n -> AlphaChoices] : \A i, j \in 1..n : i # j => s[i] # s[j]} :
              n \in 0..MaxAlphas}

\* The images of image_attack: one value each.
InputImages == [i \in 1..MaxImages |-> Fin(i % 2)]

(***************************************************************************)
(* SpecPgd: one call of perform_pgd_attack.                                *)
(***************************************************************************)
notPgdVars == <<constrainVars, csprngVars, maskVars, lateVars>>
pgdArgs ==
    <<attack_type, num_steps, alpha_values, image_attack, attack_batch_size,
      pgd_max_delta, surrogate_decoders>>

PgdInit ==
    /\ LateIdle
    /\ ConstrainIdle
    /\ CsprngIdle
    /\ MaskIdle
    /\ attack_type \in AttackTypes
    /\ num_steps \in 0..MaxSteps
    /\ alpha_values \in AlphaLists
    /\ image_attack = InputImages
    /\ attack_batch_size \in 1..MaxBatch
    /\ pgd_max_delta \in {Fin(d) : d \in 0..MaxDelta}
    /\ surrogate_decoders \in
          {[i \in 1..n |-> g] : n \in 1..MaxSurrogates, g \in GradKinds}
    /\ ensemble_weights = <<>>
    /\ alpha_idx = 0
    /\ batch_idx = 0
    /\ step = 0
    /\ image_attack_batch = <<>>
    /\ original_images = <<>>
    /\ momentum_buffer = <<>>
    /\ k_attack_batch = <<>>
    /\ k_attack_scores_alpha = <<>>
    /\ k_attack_scores_mean = <<>>
    /\ k_attack_scores_std = <<>>
    /\ pgd_events = <<>>
    /\ mask_generated = <<>>
    /\ pgd_log = <<>>
    /\ pgd_error = "none"
    /\ pgd_pc = "call"

\* Lines 487-503: the networks are frozen, the weights default to 1/N, the
\* two result lists start empty.
PgdEnter ==
    /\ pgd_pc = "call"
    /\ ensemble_weights' = DefaultWeights(Len(surrogate_decoders))
    /\ k_attack_scores_mean' = <<>>
    /\ k_attack_scores_std' = <<>>
    /\ pgd_pc' = "alpha_loop"
    /\ UNCHANGED <<alpha_idx, batch_idx, step, image_attack_batch, original_images,
                   momentum_buffer, k_attack_batch, k_attack_scores_alpha,
                   pgd_events, pgd_log, pgd_error>>
    /\ UNCHANGED <<mask_generated, pgdArgs, notPgdVars>>

\* Lines 505-507: the next alpha.
PgdNextAlpha ==
    /\ pgd_pc = "alpha_loop"
    /\ alpha_idx < Len(alpha_values)
    /\ alpha_idx' = alpha_idx + 1
    /\ k_attack_scores_alpha' = <<>>
    /\ batch_idx' = 0
    /\ pgd_pc' = "batch_loop"
    /\ UNCHANGED <<ensemble_weights, step, image_attack_batch, original_images,
                   momentum_buffer, k_attack_batch, k_attack_scores_mean,
                   k_attack_scores_std, pgd_events, pgd_log, pgd_error>>
    /\ UNCHANGED <<mask_generated, pgdArgs, notPgdVars>>

\* Lines 509-516 (INIT): the batch is sliced and cloned, the reference is its
\* clone, the momentum buffer is zero.
PgdInitBatch ==
    /\ pgd_pc = "batch_loop"
    /\ batch_idx < num_attack_batches
    /\ image_attack_batch' = SubSeq(image_attack, start_idx + 1, end_idx)
    /\ original_images' = SubSeq(image_attack, start_idx + 1, end_idx)
    /\ momentum_buffer' = zeros_like(SubSeq(image_attack, start_idx + 1, end_idx))
    /\ step' = 0
    /\ pgd_events' = <<Event("INIT", 0)>>
    /\ pgd_pc' = "step_loop"
    /\ UNCHANGED <<ensemble_weights, alpha_idx, batch_idx, k_attack_batch,
                   k_attack_scores_alpha, k_attack_scores_mean,
                   k_attack_scores_std, pgd_log, pgd_error>>
    /\ UNCHANGED <<mask_generated, pgdArgs, notPgdVars>>

\* Lines 518-541 (STEP): one iteration of the step loop.
PgdStep ==
    /\ pgd_pc = "step_loop"
    /\ step < num_steps
    /\ LET ensemble_grad == EnsembleGrad(image_attack_batch)
           buffer == MomentumUpdate(momentum_buffer, ensemble_grad)
           moved == Descend(image_attack_batch, buffer, alpha_values[alpha_idx])
       IN  /\ momentum_buffer' = buffer
           /\ image_attack_batch' = ClampToBudget(moved, original_images, pgd_max_delta)
    /\ pgd_events' = Append(pgd_events, Event("STEP", step))
    /\ step' = step + 1
    /\ UNCHANGED <<ensemble_weights, alpha_idx, batch_idx, original_images,
                   k_attack_batch, k_attack_scores_alpha, k_attack_scores_mean,
                   k_attack_scores_std, pgd_log, pgd_error, pgd_pc>>
    /\ UNCHANGED <<mask_generated, pgdArgs, notPgdVars>>

\* Lines 545-563 (SCORE): the decoder scores the batch; for a secure attack
\* type line 549 first calls generate_mask_secret_key(image_attack_batch.shape,
\* 2024, ...).  For an attack type
\* of neither list the error is logged, k_attack_batch stays unbound and its
\* use at line 559 raises UnboundLocalError.
PgdScore ==
    /\ pgd_pc = "step_loop"
    /\ ~(step < num_steps)
    /\ IF attack_type \in {"base_baseline"} \cup SecureTypes
       THEN LET out == [e \in DOMAIN image_attack_batch |->
                           Decoder(image_attack_batch[e], attack_type \in SecureTypes)]
            IN  /\ k_attack_batch' = out
                /\ k_attack_scores_alpha' =
                      k_attack_scores_alpha \o [e \in DOMAIN out |-> ScoreOf(out[e])]
                /\ pgd_events' = Append(pgd_events, Event("SCORE", 0))
                /\ mask_generated' =
                      IF attack_type \in SecureTypes
                      THEN Append(mask_generated,
                                  [image_shape |-> Len(image_attack_batch), seed_key |-> 2024])
                      ELSE mask_generated
                /\ pgd_pc' = "scored"
                /\ UNCHANGED <<pgd_log, pgd_error>>
       ELSE /\ pgd_log' = Append(pgd_log, "attack_type is undefined.")
            /\ pgd_error' = "UnboundLocalError"
            /\ pgd_pc' = "raised"
            /\ UNCHANGED <<k_attack_batch, k_attack_scores_alpha, pgd_events, mask_generated>>
    /\ UNCHANGED <<ensemble_weights, alpha_idx, batch_idx, step, image_attack_batch,
                   original_images, momentum_buffer, k_attack_scores_mean,
                   k_attack_scores_std>>
    /\ UNCHANGED <<pgdArgs, notPgdVars>>

\* Lines 565-567 (DONE): the batch's tensors are deleted (the reference
\* clone is not among them).
PgdDone ==
    /\ pgd_pc = "scored"
    /\ pgd_events' = Append(pgd_events, Event("DONE", 0))
    /\ image_attack_batch' = <<>>
    /\ momentum_buffer' = <<>>
    /\ k_attack_batch' = <<>>
    /\ batch_idx' = batch_idx + 1
    /\ pgd_pc' = "batch_loop"
    /\ UNCHANGED <<ensemble_weights, alpha_idx, step, original_images, k_attack_scores_alpha,
                   k_attack_scores_mean, k_attack_scores_std, pgd_log, pgd_error>>
    /\ UNCHANGED <<mask_generated, pgdArgs, notPgdVars>>

\* Lines 569-573: the statistics of one alpha.
PgdAlphaDone ==
    /\ pgd_pc = "batch_loop"
    /\ ~(batch_idx < num_attack_batches)
    /\ k_attack_scores_mean' = Append(k_attack_scores_mean, MeanOf(k_attack_scores_alpha))
    /\ k_attack_scores_std' = Append(k_attack_scores_std, StdOf(k_attack_scores_alpha))
    /\ pgd_pc' = "alpha_loop"
    /\ UNCHANGED <<ensemble_weights, alpha_idx, batch_idx, step, image_attack_batch,
                   original_images, momentum_buffer, k_attack_batch,
                   k_attack_scores_alpha, pgd_events, pgd_log, pgd_error>>
    /\ UNCHANGED <<mask_generated, pgdArgs, notPgdVars>>

\* Line 575: return k_attack_scores_mean, k_attack_scores_std
PgdReturn ==
    /\ pgd_pc = "alpha_loop"
    /\ ~(alpha_idx < Len(alpha_values))
    /\ pgd_pc' = "returned"
    /\ UNCHANGED <<ensemble_weights, alpha_idx, batch_idx, step, image_attack_batch,
                   original_images, momentum_buffer, k_attack_batch,
                   k_attack_scores_alpha, k_attack_scores_mean, k_attack_scores_std,
                   pgd_events, pgd_log, pgd_error>>
    /\ UNCHANGED <<mask_generated, pgdArgs, notPgdVars>>

PgdNext ==
    \/ PgdEnter
    \/ PgdNextAlpha
    \/ PgdInitBatch
    \/ PgdStep
    \/ PgdScore
    \/ PgdDone
    \/ PgdAlphaDone
    \/ PgdReturn

SpecPgd == PgdInit /\ [][PgdNext]_vars


-----------------------------------------------------------------------------
(***************************************************************************)
(* fine_tune_surrogate (attack/attacks.py).  The surrogate's parameters    *)
(* are one tensor whose storage holds the number of optimizer steps        *)
(* applied to it; a state dict maps the parameter's name to the storage    *)
(* of its tensor.  The average loss of an epoch depends on the networks    *)
(* and is drawn.                                                           *)
(***************************************************************************)
MaxEpochs == 3
MaxFtBatches == 2
MaxLoss == 3

\* The storage of the surrogate's parameter tensor.
ParamStorage == 1

\* surrogate_decoder.state_dict(): the parameter's name mapped to a tensor
\* that shares the parameter's storage.
state_dict == [w |-> ParamStorage]

\* dict.copy(): a new dict holding the same tensor objects.
DictCopy(d) == d

\* surrogate_decoder.load_state_dict(d): param.copy_(d[name]) for each name.
load_state_dict(storage, d) == [storage EXCEPT ![ParamStorage] = storage[d.w]]

\* optimizer.step(): the parameters are updated in place.
OptimizerStepInPlace(storage) ==
    [storage EXCEPT ![ParamStorage] = storage[ParamStorage] + 1]

notFineTuneVars == <<earlyVars, mainVars, trainVars, loadVars, gipVars>>

FtInit ==
    /\ EarlyIdle
    /\ MainIdle
    /\ TrainIdle
    /\ LoadIdle
    /\ GipIdle
    /\ ft_epochs \in 0..MaxEpochs
    /\ ft_num_batches \in 1..MaxFtBatches
    /\ tensor_storage = [s \in {ParamStorage} |-> 0]
    /\ best_loss = PInf
    /\ best_model_state = None
    /\ ft_epoch = 0
    /\ ft_i = 0
    /\ ft_history = <<>>
    /\ ft_pc = "call"

\* Lines 337-350: the optimizer, best_loss = inf, best_model_state = None.
FtEnter ==
    /\ ft_pc = "call"
    /\ best_loss' = PInf
    /\ best_model_state' = None
    /\ ft_epoch' = 0
    /\ ft_i' = 0
    /\ ft_pc' = "batch_loop"
    /\ UNCHANGED <<ft_epochs, ft_num_batches, tensor_storage, ft_history>>
    /\ UNCHANGED notFineTuneVars

\* Lines 356-442: one batch of an epoch, with optimizer.step() at line 420.
\* The call of generate_initial_perturbations at line 362 is taken to return
\* its perturbed batch here; SpecGip is the model of that call.
FtBatch ==
    /\ ft_pc = "batch_loop"
    /\ ft_epoch < ft_epochs
    /\ ft_i < ft_num_batches
    /\ tensor_storage' = OptimizerStepInPlace(tensor_storage)
    /\ ft_i' = ft_i + 1
    /\ UNCHANGED <<ft_epochs, ft_num_batches, best_loss, best_model_state,
                   ft_epoch, ft_history, ft_pc>>
    /\ UNCHANGED notFineTuneVars

\* Lines 444-458: the end of an epoch: the average loss, and the state dict
\* kept when the loss is below the best so far.
FtEpochEnd ==
    /\ ft_pc = "batch_loop"
    /\ ft_epoch < ft_epochs
    /\ ~(ft_i < ft_num_batches)
    /\ \E l \in 1..MaxLoss :
          LET avg_epoch_loss == Fin(l)
          IN  /\ IF ~FLe(best_loss, avg_epoch_loss)
                 THEN /\ best_loss' = avg_epoch_loss
                      /\ best_model_state' = DictCopy(state_dict)
                 ELSE UNCHANGED <<best_loss, best_model_state>>
              /\ ft_history' =
                    Append(ft_history,
                           [loss |-> avg_epoch_loss,
                            params |-> tensor_storage[ParamStorage]])
    /\ ft_epoch' = ft_epoch + 1
    /\ ft_i' = 0
    /\ UNCHANGED <<ft_epochs, ft_num_batches, tensor_storage, ft_pc>>
    /\ UNCHANGED notFineTuneVars

\* Lines 460-464: the best state is loaded and the surrogate returned.
FtReturn ==
    /\ ft_pc = "batch_loop"
    /\ ~(ft_epoch < ft_epochs)
    /\ tensor_storage' =
          IF best_model_state # None
          THEN load_state_dict(tensor_storage, best_model_state)
          ELSE tensor_storage
    /\ ft_pc' = "returned"
    /\ UNCHANGED <<ft_epochs, ft_num_batches, best_loss, best_model_state,
                   ft_epoch, ft_i, ft_history>>
    /\ UNCHANGED notFineTuneVars

FtNext ==
    \/ FtEnter
    \/ FtBatch
    \/ FtEpochEnd
    \/ FtReturn

SpecFineTune == FtInit /\ [][FtNext]_vars

-----------------------------------------------------------------------------
(***************************************************************************)
(* The attack mode of main (main.py).  A file name and a state-dict key    *)
(* are sequences of pieces, so that startswith and the slice k[7:] act on  *)
(* the first piece.  A checkpoint folder holds any of: the file saved      *)
(* from the bare surrogate, the file saved from the surrogate inside its   *)
(* distributed wrapper, and a file of another kind.                        *)
(***************************************************************************)
MaxKeys == 2
MaxParam == 2

\* The prefix the distributed wrapper puts before every key.
ModulePrefix == "module."
\* The keys of a surrogate's own state dict, and the keys a checkpoint may hold.
ModelKeys == {<<"features.w">>, <<"classifier.w">>}
CheckpointKeys == ModelKeys \cup {<<ModulePrefix, "features.w">>}

\* The parameter dictionaries: key/value pairs in order, the keys distinct.
ParamDicts ==
    UNION {{d \in [1..n -> [k : CheckpointKeys, v : 1..MaxParam]] :
               \A i, j \in 1..n : i # j => d[i].k # d[j].k} : n \in 1..MaxKeys}

\* attack/attacks.py:122: the state dict of the wrapped surrogate.
WrappedStateDict(d) == [i \in DOMAIN d |-> [k |-> <<ModulePrefix>> \o d[i].k, v |-> d[i].v]]

PlainFile == <<"surrogate_decoder_", "plain.pt">>
WrappedFile == <<"surrogate_decoder_", "ddp.pt">>
OtherFile == <<"decoder_", "model.pt">>

\* os.listdir of the folder: any of the three files, in any order.
Listings ==
    UNION {{s \in [1..n -> {PlainFile, WrappedFile, OtherFile}] :
               \A i, j \in 1..n : i # j => s[i] # s[j]} : n \in 0..3}

\* torch.load(full_path)
TorchLoad(f, params) == IF f = WrappedFile THEN WrappedStateDict(params) ELSE params

\* f.startswith('surrogate_decoder_')
StartsWithSurrogate(f) == f[1] = "surrogate_decoder_"

\* k.startswith('module.')
StartsWithModule(k) == k[1] = ModulePrefix

\* The list comprehension of line 249.
RECURSIVE FilterSurrogate(_)
FilterSurrogate(files) ==
    IF files = <<>> THEN <<>>
    ELSE IF StartsWithSurrogate(Head(files))
         THEN <<Head(files)>> \o FilterSurrogate(Tail(files))
         ELSE FilterSurrogate(Tail(files))

\* new_state_dict[k] = v on an OrderedDict: a present key keeps its place.
OrderedDictSet(d, k, v) ==
    IF \E i \in DOMAIN d : d[i].k = k
    THEN [i \in DOMAIN d |-> IF d[i].k = k THEN [k |-> k, v |-> v] ELSE d[i]]
    ELSE Append(d, [k |-> k, v |-> v])

\* A mutant of StripKey: the key is kept as it is.
KeepKey(k) == k

\* Lines 349-352 and 359-362: k[7:] for a key that starts with 'module.'.
StripKey(k) == IF StartsWithModule(k) THEN Tail(k) ELSE k

\* Lines 347-352 and 357-362: the loop that builds new_state_dict.
RECURSIVE BuildNewStateDict(_, _)
BuildNewStateDict(new_state_dict, items) ==
    IF items = <<>> THEN new_state_dict
    ELSE BuildNewStateDict(
             OrderedDictSet(new_state_dict, StripKey(Head(items).k), Head(items).v),
             Tail(items))

\* load_state_dict (strict): the keys must be the model's own.
KeysMatch(d) == {d[i].k : i \in DOMAIN d} = ModelKeys

notMainVars == <<earlyVars, fineTuneVars, trainVars, loadVars, gipVars>>
mainArgs == <<checkpoint_params, surrogate_decoder_folder>>

MainInit ==
    /\ EarlyIdle
    /\ FineTuneIdle
    /\ TrainIdle
    /\ LoadIdle
    /\ GipIdle
    /\ checkpoint_params \in ParamDicts
    /\ surrogate_decoder_folder \in
          {None} \cup [exists : {FALSE}, files : {<<>>}]
                 \cup [exists : {TRUE}, files : Listings]
    /\ train_surrogate = FALSE
    /\ surrogate_paths = <<>>
    /\ path_idx = 0
    /\ main_surrogate_decoders = <<>>
    /\ main_loads = <<>>
    /\ main_log = <<>>
    /\ main_error = "none"
    /\ main_pc = "attack_mode"

\* Lines 241-257: the surrogate folder is examined.
MainCheckFolder ==
    /\ main_pc = "attack_mode"
    /\ IF surrogate_decoder_folder = None
       THEN /\ train_surrogate' = TRUE
            /\ surrogate_paths' = <<None>>
            /\ main_pc' = "setup"
            /\ UNCHANGED <<main_log, main_error>>
       ELSE IF ~surrogate_decoder_folder.exists
       THEN /\ main_error' = "ValueError"
            /\ main_pc' = "raised"
            /\ UNCHANGED <<train_surrogate, surrogate_paths, main_log>>
       ELSE LET found == FilterSurrogate(surrogate_decoder_folder.files)
            IN  IF found = <<>>
                THEN /\ main_log' = Append(main_log, "No files starting with 'surrogate_decoder_' found")
                     /\ train_surrogate' = TRUE
                     /\ surrogate_paths' = <<None>>
                     /\ main_pc' = "setup"
                     /\ UNCHANGED main_error
                ELSE /\ train_surrogate' = FALSE
                     /\ surrogate_paths' = found
                     /\ main_pc' = "setup"
                     /\ UNCHANGED <<main_log, main_error>>
    /\ UNCHANGED <<path_idx, main_surrogate_decoders, main_loads>>
    /\ UNCHANGED <<mainArgs, notMainVars>>

\* Lines 259-293: the device (and the process group when training), the
\* generator, the watermarked model and the decoder are set up and loaded.
MainSetup ==
    /\ main_pc = "setup"
    /\ main_surrogate_decoders' = <<>>
    /\ path_idx' = 0
    /\ main_pc' = "surrogate_loop"
    /\ UNCHANGED <<train_surrogate, surrogate_paths, main_loads, main_log, main_error>>
    /\ UNCHANGED <<mainArgs, notMainVars>>

\* Lines 296-365: one surrogate is created, wrapped when it will be trained,
\* and loaded from its checkpoint when it has one.
MainCreateSurrogate ==
    /\ main_pc = "surrogate_loop"
    /\ path_idx < Len(surrogate_paths)
    /\ LET surrogate_path == surrogate_paths[path_idx + 1]
           state_dict_read == TorchLoad(surrogate_path, checkpoint_params)
           new_state_dict == BuildNewStateDict(<<>>, state_dict_read)
       IN  IF surrogate_path = None
           THEN /\ main_surrogate_decoders' =
                      Append(main_surrogate_decoders,
                             [wrapped |-> train_surrogate, params |-> None])
                /\ main_pc' = "surrogate_loop"
                /\ UNCHANGED <<main_loads, main_error>>
           ELSE /\ main_loads' =
                      Append(main_loads,
                             [file |-> surrogate_path, wrapped |-> train_surrogate,
                              new_state_dict |-> new_state_dict])
                /\ IF KeysMatch(new_state_dict)
                   THEN /\ main_surrogate_decoders' =
                              Append(main_surrogate_decoders,
                                     [wrapped |-> train_surrogate,
                                      params |-> new_state_dict])
                        /\ main_pc' = "surrogate_loop"
                        /\ UNCHANGED main_error
                   ELSE /\ main_error' = "RuntimeError"
                        /\ main_pc' = "raised"
                        /\ UNCHANGED main_surrogate_decoders
    /\ path_idx' = path_idx + 1
    /\ UNCHANGED <<train_surrogate, surrogate_paths, main_log>>
    /\ UNCHANGED <<mainArgs, notMainVars>>

\* Lines 367-394: attack_label_based is called with the surrogates; it trains
\* them when train_surrogate holds and attacks.
MainAttack ==
    /\ main_pc = "surrogate_loop"
    /\ ~(path_idx < Len(surrogate_paths))
    /\ main_pc' = IF train_surrogate THEN "trained_and_attacked" ELSE "attacked"
    /\ UNCHANGED <<train_surrogate, surrogate_paths, path_idx, main_surrogate_decoders,
                   main_loads, main_log, main_error>>
    /\ UNCHANGED <<mainArgs, notMainVars>>

MainNext ==
    \/ MainCheckFolder
    \/ MainSetup
    \/ MainCreateSurrogate
    \/ MainAttack

SpecMain == MainInit /\ [][MainNext]_vars

-----------------------------------------------------------------------------
(***************************************************************************)
(* train_surrogate_decoder (attack/attacks.py), run by every rank of the   *)
(* process group.  The ranks are processes that take their steps in any    *)
(* order.  dist.all_reduce is a blocking collective: the k-th call of a    *)
(* rank returns once every rank has made its k-th call, with the sum of    *)
(* the tensors passed.  A rank's local average loss depends on its data    *)
(* (torch.manual_seed(2024 + rank)) and is drawn per rank when it starts.  *)
(***************************************************************************)
MaxWorld == 2
MaxTrainEpochs == 2
MaxTrainBatches == 1

\* The local average losses a rank may measure (whole numbers).
LocalLosses == {1, 2}

\* The ranks a process group may have, and those of this run.
AllRanks == 0..(MaxWorld - 1)
Ranks == 0..(world_size - 1)

\* A mutant of rank_is_zero: every rank is taken for the coordinator.
rank_is_any(r) == TRUE

\* rank == 0
rank_is_zero(r) == r = 0

\* The lines a rank logs: none unless it is rank 0.
Logged(r, msg) == IF rank_is_zero(r) THEN Append(tr_log, [rank |-> r, msg |-> msg]) ELSE tr_log

\* A mutant of AllEntered: all_reduce returns without waiting.
AllEnteredSkipped(k) == TRUE

\* all_reduce blocks until every rank has made its k-th call.
AllEntered(k) == \A q \in Ranks : Len(reduce_entered[q]) >= k

\* The sum of the values of f over the set S of its arguments.
RECURSIVE SumOver(_, _)
SumOver(f, S) ==
    IF S = {} THEN 0
    ELSE LET s == CHOOSE s \in S : TRUE
         IN  f[s] + SumOver(f, S \ {s})

\* op=dist.ReduceOp.SUM: the sum of the tensors passed to the k-th call.
ReduceSum(k) ==
    LET there == {q \in Ranks : Len(reduce_entered[q]) >= k}
    IN  SumOver([q \in there |-> reduce_entered[q][k].tensor], there)

\* The two tensors a rank reduces per epoch: the local average loss and the
\* local average norm difference (one more than the loss here).
LocalNormDiff(r) == local_avg_loss[r] + 1

notTrainVars == <<earlyVars, fineTuneVars, mainVars, loadVars, gipVars>>
trainArgs == <<world_size, tr_epochs, tr_num_batches>>

TrInit ==
    /\ EarlyIdle
    /\ FineTuneIdle
    /\ MainIdle
    /\ LoadIdle
    /\ GipIdle
    /\ world_size \in 1..MaxWorld
    /\ tr_epochs \in 0..MaxTrainEpochs
    /\ tr_num_batches \in 1..MaxTrainBatches
    /\ local_avg_loss = [r \in Ranks |-> 0]
    /\ rank_pc = [r \in Ranks |-> "call"]
    /\ rank_epoch = [r \in Ranks |-> 0]
    /\ rank_batch_idx = [r \in Ranks |-> 0]
    /\ reduce_entered = [r \in Ranks |-> <<>>]
    /\ reduce_returned = [r \in Ranks |-> 0]
    /\ global_avg_loss = [r \in Ranks |-> <<>>]
    /\ tr_log = <<>>
    /\ tr_files = {}

\* Lines 33-47: the time string is logged by rank 0, the generator seeded,
\* the optimizer created.
TrEnter(r) ==
    /\ rank_pc[r] = "call"
    /\ tr_log' = Logged(r, "time_string")
    /\ \E l \in LocalLosses : local_avg_loss' = [local_avg_loss EXCEPT ![r] = l]
    /\ rank_pc' = [rank_pc EXCEPT ![r] = "batch_loop"]
    /\ UNCHANGED <<rank_epoch, rank_batch_idx, reduce_entered, reduce_returned,
                   global_avg_loss, tr_files>>
    /\ UNCHANGED <<trainArgs, notTrainVars>>

\* Lines 54-92: one batch; rank 0 logs every tenth batch.
TrBatch(r) ==
    /\ rank_pc[r] = "batch_loop"
    /\ rank_epoch[r] < tr_epochs
    /\ rank_batch_idx[r] < tr_num_batches
    /\ tr_log' = IF rank_batch_idx[r] % 10 = 0 THEN Logged(r, "batch") ELSE tr_log
    /\ rank_batch_idx' = [rank_batch_idx EXCEPT ![r] = @ + 1]
    /\ UNCHANGED <<rank_pc, rank_epoch, reduce_entered, reduce_returned,
                   global_avg_loss, tr_files>>
    /\ UNCHANGED <<local_avg_loss, trainArgs, notTrainVars>>

\* Lines 94-97 and 104-106: after the batches of an epoch a rank of a group
\* enters the all_reduce of the loss; a single process takes its own averages.
TrEpochLoss(r) ==
    /\ rank_pc[r] = "batch_loop"
    /\ rank_epoch[r] < tr_epochs
    /\ ~(rank_batch_idx[r] < tr_num_batches)
    /\ IF world_size > 1
       THEN /\ reduce_entered' =
                  [reduce_entered EXCEPT
                      ![r] = Append(@, [what |-> "loss", tensor |-> local_avg_loss[r]])]
            /\ rank_pc' = [rank_pc EXCEPT ![r] = "all_reduce_loss"]
            /\ UNCHANGED global_avg_loss
       ELSE /\ global_avg_loss' =
                  [global_avg_loss EXCEPT ![r] = Append(@, Rat(local_avg_loss[r], 1))]
            /\ rank_pc' = [rank_pc EXCEPT ![r] = "epoch_end"]
            /\ UNCHANGED reduce_entered
    /\ UNCHANGED <<rank_epoch, rank_batch_idx, reduce_returned, tr_log, tr_files>>
    /\ UNCHANGED <<local_avg_loss, trainArgs, notTrainVars>>

\* Lines 97-101: the all_reduce of the loss returns, global_avg_loss is the
\* sum over world_size, and the rank enters the all_reduce of the norm
\* difference.
TrLossReduced(r) ==
    /\ rank_pc[r] = "all_reduce_loss"
    /\ AllEntered(reduce_returned[r] + 1)
    /\ global_avg_loss' =
          [global_avg_loss EXCEPT
              ![r] = Append(@, Rat(ReduceSum(reduce_returned[r] + 1), world_size))]
    /\ reduce_entered' =
          [reduce_entered EXCEPT
              ![r] = Append(@, [what |-> "norm_diff", tensor |-> LocalNormDiff(r)])]
    /\ reduce_returned' = [reduce_returned EXCEPT ![r] = @ + 1]
    /\ rank_pc' = [rank_pc EXCEPT ![r] = "all_reduce_norm_diff"]
    /\ UNCHANGED <<rank_epoch, rank_batch_idx, tr_log, tr_files>>
    /\ UNCHANGED <<local_avg_loss, trainArgs, notTrainVars>>

\* Lines 101-102: the all_reduce of the norm difference returns.
TrNormDiffReduced(r) ==
    /\ rank_pc[r] = "all_reduce_norm_diff"
    /\ AllEntered(reduce_returned[r] + 1)
    /\ reduce_returned' = [reduce_returned EXCEPT ![r] = @ + 1]
    /\ rank_pc' = [rank_pc EXCEPT ![r] = "epoch_end"]
    /\ UNCHANGED <<rank_epoch, rank_batch_idx, reduce_entered, global_avg_loss,
                   tr_log, tr_files>>
    /\ UNCHANGED <<local_avg_loss, trainArgs, notTrainVars>>

\* Lines 108-115: the epoch's line is logged by rank 0 and the next epoch begins.
TrEpochEnd(r) ==
    /\ rank_pc[r] = "epoch_end"
    /\ tr_log' = Logged(r, "epoch")
    /\ rank_epoch' = [rank_epoch EXCEPT ![r] = @ + 1]
    /\ rank_batch_idx' = [rank_batch_idx EXCEPT ![r] = 0]
    /\ rank_pc' = [rank_pc EXCEPT ![r] = "batch_loop"]
    /\ UNCHANGED <<reduce_entered, reduce_returned, global_avg_loss, tr_files>>
    /\ UNCHANGED <<local_avg_loss, trainArgs, notTrainVars>>

\* Lines 117-123: after the last epoch rank 0 writes the checkpoint and logs
\* its name; the function returns.
TrSave(r) ==
    /\ rank_pc[r] = "batch_loop"
    /\ ~(rank_epoch[r] < tr_epochs)
    /\ tr_files' =
          IF rank_is_zero(r)
          THEN tr_files \cup {[rank |-> r, file |-> "surrogate_decoder_"]}
          ELSE tr_files
    /\ tr_log' = Logged(r, "saved")
    /\ rank_pc' = [rank_pc EXCEPT ![r] = "returned"]
    /\ UNCHANGED <<rank_epoch, rank_batch_idx, reduce_entered, reduce_returned,
                   global_avg_loss>>
    /\ UNCHANGED <<local_avg_loss, trainArgs, notTrainVars>>

\* The steps of one rank.
TrRank(r) ==
    /\ r \in Ranks
    /\ \/ TrEnter(r)
       \/ TrBatch(r)
       \/ TrEpochLoss(r)
       \/ TrLossReduced(r)
       \/ TrNormDiffReduced(r)
       \/ TrEpochEnd(r)
       \/ TrSave(r)

TrNext ==
    \/ \E r \in Ranks : TrEnter(r)
    \/ \E r \in Ranks : TrBatch(r)
    \/ \E r \in Ranks : TrEpochLoss(r)
    \/ \E r \in Ranks : TrLossReduced(r)
    \/ \E r \in Ranks : TrNormDiffReduced(r)
    \/ \E r \in Ranks : TrEpochEnd(r)
    \/ \E r \in Ranks : TrSave(r)

SpecTrain == TrInit /\ [][TrNext]_vars

\* Every rank is a process of its own that keeps running.
SpecTrainFair == SpecTrain /\ \A r \in AllRanks : WF_vars(TrRank(r))
-----------------------------------------------------------------------------
(***************************************************************************)
(* load_stylegan2_model (models/stylegan2.py), called by every process of  *)
(* a run.  The processes take their steps in any order.  download_file     *)
(* (utils.file_utils) writes the file at local_path; while it runs the     *)
(* file either is not there yet or is there with part of its content.      *)
(* torch.distributed.barrier() returns in a rank once every rank of the    *)
(* group has called it.                                                    *)
(***************************************************************************)
\* The largest number of processes of a run.
MaxProcs == 3

\* The states of the file at local_path.
FileStates == {"absent", "partial", "complete"}

\* The processes of this run: the ranks of the group, or the one process.
LoadRanks == 0..(load_world - 1)

\* os.path.exists(local_path)
PathExists == local_path # "absent"

\* is_initialized() and get_rank() == 0 or not is_initialized()
MayDownload(r) == (load_initialized /\ rank_is_zero(r)) \/ ~load_initialized

\* torch.distributed.barrier() returns once every rank has entered it.
BarrierPassed == \A q \in LoadRanks : q \in barrier_entered

notLoadVars == <<earlyVars, fineTuneVars, mainVars, trainVars, gipVars>>
loadArgs == <<load_initialized, load_world>>

LoadInit ==
    /\ EarlyIdle
    /\ FineTuneIdle
    /\ MainIdle
    /\ TrainIdle
    /\ GipIdle
    /\ load_initialized \in BOOLEAN
    /\ load_world \in 1..MaxProcs
    /\ load_initialized \/ load_world = 1
    /\ local_path \in {"absent", "complete"}
    /\ load_pc = [r \in LoadRanks |-> "exists"]
    /\ barrier_entered = {}
    /\ downloaded_by = {}
    /\ file_read = [r \in LoadRanks |-> "none"]

\* Line 13: if not os.path.exists(local_path); lines 14 and 19 choose what
\* the rank does when the file was not there.
LoadExists(r) ==
    /\ load_pc[r] = "exists"
    /\ load_pc' = [load_pc EXCEPT ![r] =
                     IF PathExists THEN "verify"
                     ELSE IF MayDownload(r) THEN "download"
                     ELSE IF load_initialized THEN "barrier"
                     ELSE "verify"]
    /\ UNCHANGED <<local_path, barrier_entered, downloaded_by, file_read, loadArgs, notLoadVars>>

\* Line 16: download_file(url, local_path) starts writing; the file may be
\* visible with part of its content while the download runs.
LoadDownloadStart(r) ==
    /\ load_pc[r] = "download"
    /\ \E visible \in BOOLEAN :
         local_path' = IF visible THEN "partial" ELSE local_path
    /\ downloaded_by' = downloaded_by \cup {r}
    /\ load_pc' = [load_pc EXCEPT ![r] = "downloading"]
    /\ UNCHANGED <<barrier_entered, file_read, loadArgs, notLoadVars>>

\* Line 16: download_file returns, the file is complete.
LoadDownloadFinish(r) ==
    /\ load_pc[r] = "downloading"
    /\ local_path' = "complete"
    /\ load_pc' = [load_pc EXCEPT ![r] = IF load_initialized THEN "barrier" ELSE "verify"]
    /\ UNCHANGED <<barrier_entered, downloaded_by, file_read, loadArgs, notLoadVars>>

\* Lines 19-20: the rank calls torch.distributed.barrier().
LoadBarrier(r) ==
    /\ load_pc[r] = "barrier"
    /\ barrier_entered' = barrier_entered \cup {r}
    /\ load_pc' = [load_pc EXCEPT ![r] = "in_barrier"]
    /\ UNCHANGED <<local_path, downloaded_by, file_read, loadArgs, notLoadVars>>

\* Line 20: the barrier returns.
LoadBarrierReturn(r) ==
    /\ load_pc[r] = "in_barrier"
    /\ BarrierPassed
    /\ load_pc' = [load_pc EXCEPT ![r] = "verify"]
    /\ UNCHANGED <<local_path, barrier_entered, downloaded_by, file_read, loadArgs, notLoadVars>>

\* Lines 23-44: the integrity checks and the read of the file.  A missing
\* file raises FileNotFoundError; a file with part of its content is too
\* small (ValueError) or fails to unpickle, and then lines 42-43 remove it.
LoadVerify(r) ==
    /\ load_pc[r] = "verify"
    /\ file_read' = [file_read EXCEPT ![r] = local_path]
    /\ \/ /\ local_path = "absent"
          /\ load_pc' = [load_pc EXCEPT ![r] = "FileNotFoundError"]
          /\ UNCHANGED local_path
       \/ /\ local_path = "partial"
          /\ load_pc' = [load_pc EXCEPT ![r] = "ValueError"]
          /\ UNCHANGED local_path
       \/ /\ local_path = "partial"
          /\ load_pc' = [load_pc EXCEPT ![r] = "RuntimeError"]
          /\ local_path' = "absent"
       \/ /\ local_path = "complete"
          /\ load_pc' = [load_pc EXCEPT ![r] = "returned"]
          /\ UNCHANGED local_path
    /\ UNCHANGED <<barrier_entered, downloaded_by, loadArgs, notLoadVars>>

\* The steps of one rank.
LoadRank(r) ==
    /\ r \in LoadRanks
    /\ \/ LoadExists(r)
       \/ LoadDownloadStart(r)
       \/ LoadDownloadFinish(r)
       \/ LoadBarrier(r)
       \/ LoadBarrierReturn(r)
       \/ LoadVerify(r)

LoadNext ==
    \/ \E r \in LoadRanks : LoadExists(r)
    \/ \E r \in LoadRanks : LoadDownloadStart(r)
    \/ \E r \in LoadRanks : LoadDownloadFinish(r)
    \/ \E r \in LoadRanks : LoadBarrier(r)
    \/ \E r \in LoadRanks : LoadBarrierReturn(r)
    \/ \E r \in LoadRanks : LoadVerify(r)

SpecLoad == LoadInit /\ [][LoadNext]_vars
-----------------------------------------------------------------------------
(***************************************************************************)
(* generate_initial_perturbations (attack/attacks.py).  The candidate is   *)
(* a tensor of two elements.  For a tensor produced inside the loop the    *)
(* model keeps what autograd records: whether it requires grad, and the    *)
(* modules its graph passes through.  An operation run under               *)
(* torch.no_grad(), or on inputs none of which requires grad, produces a   *)
(* tensor without a graph; backward() on such a tensor raises              *)
(* RuntimeError.                                                           *)
(***************************************************************************)
MaxGipSteps == 2
MaxOriginal == 2

\* The values of the elements of an image; [-1, 1] is the valid range.
ElementValues == {-MaxOriginal, 0, MaxOriginal}
GipElems == 1..2

\* images.requires_grad = True: a leaf tensor.
Leaf == [requires_grad |-> TRUE, through |-> {}]

\* module(x): recorded when grad mode is on and x requires grad.
ModuleCall(name, x, grad_enabled) ==
    IF grad_enabled /\ x.requires_grad
    THEN [requires_grad |-> TRUE, through |-> x.through \cup {name}]
    ELSE NoTensor

\* An operation of two tensors (subtraction, cosine similarity, sum).
Combine(a, b) ==
    [requires_grad |-> a.requires_grad \/ b.requires_grad,
     through |-> a.through \cup b.through]

\* Lines 267-275: the loss of one step, from k_real (decoder(images) under
\* torch.no_grad()), k_scores_orig and initial_direction (lines 246-250,
\* under torch.no_grad()).
StepLoss(x) ==
    LET k_real == ModuleCall("decoder", x, FALSE)
        k_scores_orig == ModuleCall("decoder", NoTensor, FALSE)
        initial_direction == ModuleCall("decoder", NoTensor, FALSE)
        norm_reduction == Combine(k_real, k_scores_orig)
        direction_change == Combine(k_real, initial_direction)
    IN  Combine(norm_reduction, direction_change)

notGipVars == <<earlyVars, fineTuneVars, mainVars, trainVars, loadVars>>
gipArgs == <<gip_num_steps, gip_max_delta, gip_original_images, training_at_call>>

GipInit ==
    /\ EarlyIdle
    /\ FineTuneIdle
    /\ MainIdle
    /\ TrainIdle
    /\ LoadIdle
    /\ gip_num_steps \in 0..MaxGipSteps
    /\ gip_max_delta \in 0..MaxDelta
    /\ gip_original_images \in [GipElems -> ElementValues]
    /\ gip_images = gip_original_images
    /\ training_at_call \in BOOLEAN
    /\ surrogate_training = training_at_call
    /\ decoder_training = FALSE
    /\ gip_step = 0
    /\ k_surrogate = NoTensor
    /\ gip_loss = NoTensor
    /\ best_perturbation = None
    /\ best_k_scores = None
    /\ min_k_score = PInf
    /\ prev_k_score = PInf
    /\ plateau_count = 0
    /\ gip_error = "none"
    /\ gip_pc = "call"

\* Lines 239-256: both networks are put in eval mode, the candidate and the
\* reference are clones of the input, the trackers start empty.
GipEnter ==
    /\ gip_pc = "call"
    /\ surrogate_training' = FALSE
    /\ decoder_training' = FALSE
    /\ gip_images' = gip_original_images
    /\ best_perturbation' = None
    /\ best_k_scores' = None
    /\ min_k_score' = PInf
    /\ prev_k_score' = PInf
    /\ plateau_count' = 0
    /\ gip_step' = 0
    /\ gip_pc' = "loop"
    /\ UNCHANGED <<k_surrogate, gip_loss, gip_error>>
    /\ UNCHANGED <<gipArgs, notGipVars>>

\* Lines 258-275: the forward passes and the loss of one step.
GipLoss ==
    /\ gip_pc = "loop"
    /\ gip_step < gip_num_steps
    /\ k_surrogate' = ModuleCall("surrogate_decoder", Leaf, TRUE)
    /\ gip_loss' = StepLoss(Leaf)
    /\ gip_pc' = "backward"
    /\ UNCHANGED <<gip_images, surrogate_training, decoder_training, gip_step,
                   best_perturbation, best_k_scores, min_k_score, prev_k_score,
                   plateau_count, gip_error>>
    /\ UNCHANGED <<gipArgs, notGipVars>>

\* Line 277: loss.backward() on a loss without a graph raises; lines 279-312
\* of the step are not reached.
GipBackward ==
    /\ gip_pc = "backward"
    /\ ~gip_loss.requires_grad
    /\ gip_error' = "RuntimeError"
    /\ gip_pc' = "raised"
    /\ UNCHANGED <<gip_images, surrogate_training, decoder_training, gip_step,
                   k_surrogate, gip_loss, best_perturbation, best_k_scores,
                   min_k_score, prev_k_score, plateau_count>>
    /\ UNCHANGED <<gipArgs, notGipVars>>

\* Line 325: the loop is over, the trackers are returned.
GipReturn ==
    /\ gip_pc = "loop"
    /\ ~(gip_step < gip_num_steps)
    /\ gip_pc' = "returned"
    /\ UNCHANGED <<gip_images, surrogate_training, decoder_training, gip_step,
                   k_surrogate, gip_loss, best_perturbation, best_k_scores,
                   min_k_score, prev_k_score, plateau_count, gip_error>>
    /\ UNCHANGED <<gipArgs, notGipVars>>

GipNext ==
    \/ GipEnter
    \/ GipLoss
    \/ GipBackward
    \/ GipReturn

SpecGip == GipInit /\ [][GipNext]_vars
-----------------------------------------------------------------------------
(***************************************************************************)
(* Claims about constrain_image, checked under SpecConstrain.              *)
(***************************************************************************)
\* The delta of the inputs is constant over the spatial positions of channel c.
ZeroRangeDelta(c) ==
    \A p, q \in Pix : x_M_hat[c][p] - x_M[c][p] = x_M_hat[c][q] - x_M[c][q]

\* C1: every element of the returned image differs from the corresponding
\* element of the reference by at most max_delta.
C1_DeltaBudget ==
    constrain_pc = "returned" =>
        \A c \in Chan, p \in Pix :
            FLe(FAbs(FSub(x_M_hat_constrained[c][p], Fin(x_M[c][p]))), Fin(max_delta))

\* C2: when the delta has zero range (constant over the spatial positions,
\* candidate = reference included), the rescale divides by nothing that is
\* zero and the returned image holds no NaN and no Inf.
C2_ZeroRangeWellDefined ==
    constrain_pc = "returned" =>
        \A c \in Chan :
            ZeroRangeDelta(c) => \A p \in Pix : IsFinite(x_M_hat_constrained[c][p])

-----------------------------------------------------------------------------
(***************************************************************************)
(* mask_image_with_key and generate_mask_secret_key, under SpecMask.       *)
(***************************************************************************)
IsConstantImage(img) == \A e, f \in AllElems : img[e[1]][e[2]] = img[f[1]][f[2]]

InUnitInterval(a) == FLe(Fin(0), a) /\ FLe(a, Fin(1))

\* C3: whenever mask_image_with_key has normalised an image, the denominator
\* max - min + eps it divided by is a finite non-zero number, every
\* normalised value lies in [0, 1], and a constant image (max = min) was
\* normalised to all zeros.
C3_NormalisationDefined ==
    \A s \in Slot : masked[s].done =>
        LET den == MaskDenominator(ToFloat(masked[s].img))
        IN  /\ IsFinite(den) /\ den.n # 0
            /\ \A c \in Chan, p \in Pix : InUnitInterval(masked[s].normalized[c][p])
            /\ IsConstantImage(masked[s].img) =>
                   \A c \in Chan, p \in Pix : masked[s].normalized[c][p] = Fin(0)

\* C3 witness: a constant image has been masked.
C3_ConstantImageMasked ==
    \E s \in Slot : masked[s].done /\ IsConstantImage(masked[s].img)

SameParameters(m, n) ==
    /\ m.weight = n.weight
    /\ m.bias = n.bias

\* C8: two networks generated from the same seed have identical parameters,
\* and when both have masked the same image their outputs are identical,
\* whatever was drawn from the random generators between the two builds.
C8_MaskDeterminism ==
    \A s, t \in Slot :
        (k_mask[s].built /\ k_mask[t].built /\ mask_seed[s] = mask_seed[t]) =>
            /\ SameParameters(k_mask[s], k_mask[t])
            /\ (masked[s].done /\ masked[t].done /\ masked[s].img = masked[t].img)
                   => masked[s].out = masked[t].out

\* C8 witness: both variables hold a network of the same seed, both have
\* masked the current image, and Python's generator is not where the last
\* build left it (something else has drawn from it).
C8_TwoBuildsSameSeedMasked ==
    /\ k_mask[1].built /\ k_mask[2].built
    /\ mask_seed[1] = mask_seed[2]
    /\ masked[1].done /\ masked[2].done
    /\ masked[1].img = images /\ masked[2].img = images
    /\ py_random # PyNext(PySeed(py_random, mask_seed[1]))

AllFrozen(net) ==
    \A l \in Layers : ~net.requires_grad[l].weight /\ ~net.requires_grad[l].bias

-----------------------------------------------------------------------------
(***************************************************************************)
(* The key derivations, under SpecKdf.  csprng_out holds one record per    *)
(* returned call of generate_csprng_bytes.                                 *)
(***************************************************************************)
Calls == DOMAIN csprng_out

\* C4: two calls of generate_csprng_bytes with the same key and the same
\* num_bytes return identical byte strings.
C4_CsprngDeterministic ==
    \A i, j \in Calls :
        (csprng_out[i].key = csprng_out[j].key
            /\ csprng_out[i].num_bytes = csprng_out[j].num_bytes)
        => csprng_out[i].out = csprng_out[j].out

\* C4 witness: two calls with the same key have returned more than one block.
C4_TwoCallsSameKey ==
    \E i, j \in Calls :
        /\ i # j
        /\ csprng_out[i].key = csprng_out[j].key
        /\ csprng_out[i].num_bytes > DigestSize
        /\ Len(csprng_out[i].out) > DigestSize

\* C5 as stated: any two calls with different keys and the same length
\* return different byte strings.
C5_DifferentKeysDifferentOutputs ==
    \A i, j \in Calls :
        (csprng_out[i].key # csprng_out[j].key
            /\ csprng_out[i].num_bytes = csprng_out[j].num_bytes)
        => csprng_out[i].out # csprng_out[j].out

\* The first n bytes (at most one block) of the HMAC of counter 0 under k.
FirstBlockPrefix(k, n) ==
    SubSeq(HmacSha256(k, <<0, 0, 0, 0>>), 1, IF n < DigestSize THEN n ELSE DigestSize)

\* C5 amended: two calls for the same length n >= 1 whose keys give HMAC
\* blocks of counter 0 that differ within their first min(n, 32) bytes
\* return different byte strings.
C5_DistinctFirstBlocksDistinctOutputs ==
    \A i, j \in Calls :
        (/\ csprng_out[i].num_bytes = csprng_out[j].num_bytes
         /\ csprng_out[i].num_bytes >= 1
         /\ FirstBlockPrefix(csprng_out[i].key, csprng_out[i].num_bytes)
              # FirstBlockPrefix(csprng_out[j].key, csprng_out[j].num_bytes))
        => csprng_out[i].out # csprng_out[j].out

\* C5 witness: two calls with different keys whose first blocks differ have
\* returned at least one byte each.
C5_TwoCallsDifferentKeys ==
    \E i, j \in Calls :
        /\ csprng_out[i].key # csprng_out[j].key
        /\ csprng_out[i].num_bytes >= 1
        /\ FirstBlockPrefix(csprng_out[i].key, csprng_out[i].num_bytes)
             # FirstBlockPrefix(csprng_out[j].key, csprng_out[j].num_bytes)

\* Byte b (from 1) of the output the claim describes: byte ((b-1) mod 32) of
\* the HMAC of the counter (b-1) div 32, the counter as four big-endian bytes.
BlockOfByte(b) == (b - 1) \div DigestSize

C7_ShortKeyRejected ==
    /\ \A i \in Calls :
          Len(csprng_out[i].key) < DigestSize =>
              (csprng_out[i].error = "InvalidKeyLength" /\ csprng_out[i].out = <<>>)
    /\ (csprng_pc = "idle" /\ Len(key) < ChaChaKeyLen /\ csprng_out = <<>>
          /\ (k_mask[1].built \/ cnn_error # "none"))
        => (cnn_error = "InvalidKeyLength" /\ ~k_mask[1].built)

-----------------------------------------------------------------------------
(***************************************************************************)
(* perform_pgd_attack, under SpecPgd.  pgd_events is the sequence of       *)
(* stages of the (alpha, batch) pair begun last.                           *)
(***************************************************************************)
ExpectedStages(n) ==
    <<Event("INIT", 0)>> \o [i \in 1..n |-> Event("STEP", i - 1)]
        \o <<Event("SCORE", 0), Event("DONE", 0)>>

IsPrefix(s, t) == Len(s) <= Len(t) /\ s = SubSeq(t, 1, Len(s))

\* C10: the stages of every (alpha, batch) pair are INIT, then STEP 0 ..
\* STEP num_steps-1 in order, then one SCORE, then DONE: what a pair has
\* gone through is always a prefix of that sequence, and once control has
\* left the pair (the next batch, the next alpha, the return or an
\* exception) it is the whole sequence.
C10_PairLifecycle ==
    /\ IsPrefix(pgd_events, ExpectedStages(num_steps))
    /\ (pgd_events # <<>> /\ pgd_pc \in {"batch_loop", "alpha_loop", "returned", "raised"})
          => pgd_events = ExpectedStages(num_steps)

InBudget(x, ref, delta) == FLe(FSub(ref, delta), x) /\ FLe(x, FAdd(ref, delta))

\* C11: from INIT to SCORE of every (alpha, batch) pair, so after every STEP
\* and at SCORE, the reference is the slice of image_attack the batch was
\* cloned from and every element of the candidate lies in
\* [reference - max_delta, reference + max_delta].
C11_CandidateInBudget ==
    pgd_pc \in {"step_loop", "scored"} =>
        /\ original_images = SubSeq(image_attack, start_idx + 1, end_idx)
        /\ DOMAIN image_attack_batch = DOMAIN original_images
        /\ \A e \in DOMAIN image_attack_batch :
              InBudget(image_attack_batch[e], original_images[e], pgd_max_delta)

\* C11 witness: a batch has been scored after steps that together reach
\* further than max_delta (step * alpha > max_delta > 0), so the clamp has
\* cut the candidate back to the edge of the budget.
C11_ClampedStepScored ==
    /\ pgd_pc = "scored"
    /\ step >= 1
    /\ ~FLe(FMul(alpha_values[alpha_idx], Fin(step)), pgd_max_delta)
    /\ \E e \in DOMAIN image_attack_batch :
          /\ image_attack_batch[e] # original_images[e]
          /\ FAbs(FSub(image_attack_batch[e], original_images[e])) = pgd_max_delta

\* The candidate after k more steps with step size alpha, computed from the
\* candidate, the buffer and the reference alone.
RECURSIVE AfterSteps(_, _, _, _, _)
AfterSteps(cand, buffer, ref, alpha, k) ==
    IF k = 0 THEN cand
    ELSE LET b == MomentumUpdate(buffer, EnsembleGrad(cand))
         IN  AfterSteps(ClampToBudget(Descend(cand, b, alpha), ref, pgd_max_delta),
                        b, ref, alpha, k - 1)

SliceOfBatch(b) ==
    SubSeq(image_attack, b * attack_batch_size + 1,
           IF (b + 1) * attack_batch_size < Len(image_attack)
           THEN (b + 1) * attack_batch_size ELSE Len(image_attack))

\* The scores of the images of batches b .. num_attack_batches - 1 under
\* step size alpha, each batch started from its slice of image_attack with
\* a zero buffer.
RECURSIVE ScoresFromBatch(_, _)
ScoresFromBatch(alpha, b) ==
    IF b >= num_attack_batches THEN <<>>
    ELSE LET s == SliceOfBatch(b)
             c == AfterSteps(s, [e \in DOMAIN s |-> Fin(0)], s, alpha, num_steps)
         IN  [e \in DOMAIN c |-> ScoreOf(Decoder(c[e], attack_type \in SecureTypes))]
                 \o ScoresFromBatch(alpha, b + 1)

-----------------------------------------------------------------------------
\* The number of images the batches before batch b hold.
ImagesBefore(b) ==
    IF b * attack_batch_size < Len(image_attack)
    THEN b * attack_batch_size
    ELSE Len(image_attack)

\* The scores one statistic was computed over cover image_attack once and in
\* order: one score per image, the j-th the decoder's score of a candidate
\* inside the budget of image j.
CoversEveryImage(stat) ==
    /\ Len(stat.of) = Len(image_attack)
    /\ \A j \in DOMAIN stat.of :
          InBudget(stat.of[j].of.x, image_attack[j], pgd_max_delta)

\* C13: between two batches the scores collected for the current alpha are
\* those of the images of the batches already done, one each; and when
\* perform_pgd_attack has returned, the mean list and the std list each have
\* len(alpha_values) entries, the i-th computed from the scores of the i-th
\* alpha, over exactly image_attack.size(0) scores, one per image and in
\* image order, also when the last batch is shorter than attack_batch_size.
C13_OneEntryPerAlphaOverAllImages ==
    /\ pgd_pc = "batch_loop" =>
          Len(k_attack_scores_alpha) = ImagesBefore(batch_idx)
    /\ pgd_pc = "returned" =>
          /\ Len(k_attack_scores_mean) = Len(alpha_values)
          /\ Len(k_attack_scores_std) = Len(alpha_values)
          /\ \A i \in DOMAIN alpha_values :
                /\ k_attack_scores_mean[i].op = "mean"
                /\ k_attack_scores_std[i].op = "std"
                /\ k_attack_scores_mean[i].of = k_attack_scores_std[i].of
                /\ k_attack_scores_mean[i].of = ScoresFromBatch(alpha_values[i], 0)
                /\ CoversEveryImage(k_attack_scores_mean[i])

\* C13 witness: a call with two alphas and an image count that is not a
\* multiple of attack_batch_size has returned its two lists.
C13_UnevenBatchesReturned ==
    /\ pgd_pc = "returned"
    /\ Len(image_attack) % attack_batch_size # 0
    /\ attack_batch_size > 1
    /\ Len(alpha_values) = 2
    /\ Len(k_attack_scores_mean) = 2
    /\ Len(k_attack_scores_mean[2].of) = Len(image_attack)

-----------------------------------------------------------------------------
\* C14: for an attack_type that is none of base_baseline, base_secure,
\* combined_secure, fixed_secure, perform_pgd_attack performs no computation:
\* no batch is initialised and no STEP is executed before the call is
\* rejected.
C14_UnknownTypeRejectedFirst ==
    attack_type \notin ({"base_baseline"} \cup SecureTypes) =>
        /\ step = 0
        /\ pgd_events = <<>>
        /\ image_attack_batch = <<>>

-----------------------------------------------------------------------------
\* C15: once perform_pgd_attack has set the default weights there is one
\* weight per surrogate, each weight is 1/N for the N surrogates of the pool,
\* and the weights sum to 1.
C15_DefaultWeightsUniform ==
    pgd_pc # "call" =>
        /\ Len(ensemble_weights) = Len(surrogate_decoders)
        /\ \A i \in DOMAIN ensemble_weights :
              ensemble_weights[i] = Rat(1, Len(surrogate_decoders))
        /\ FSumOver(ensemble_weights, DOMAIN ensemble_weights) = Fin(1)

\* C15 witness: a pool of at least two surrogates has taken a STEP with the
\* default weights.
C15_PoolOfSeveralStepped ==
    /\ pgd_pc = "step_loop"
    /\ step >= 1
    /\ Len(surrogate_decoders) >= 2
    /\ Len(ensemble_weights) = Len(surrogate_decoders)

-----------------------------------------------------------------------------
\* C28: in every state of the step loop the momentum buffer and the candidate
\* hold numbers: the division by the L1 norm of the ensemble gradient never
\* yields NaN, also when the ensemble gradient is exactly zero.
C28_NormalisationNeverNaN ==
    /\ \A e \in DOMAIN momentum_buffer : ~IsNaN(momentum_buffer[e])
    /\ \A e \in DOMAIN image_attack_batch : ~IsNaN(image_attack_batch[e])

\* C24: within one run of perform_pgd_attack, generate_mask_secret_key is
\* invoked at most once for a given seed and image shape: no two of the
\* run's invocations have the same seed and the same shape.
C24_MaskGeneratedOncePerShape ==
    \A i, j \in DOMAIN mask_generated :
        mask_generated[i] = mask_generated[j] => i = j

-----------------------------------------------------------------------------
\* The first epoch whose average loss is the lowest of the recorded ones.
BestEpoch ==
    CHOOSE e \in DOMAIN ft_history :
        /\ \A f \in DOMAIN ft_history : FLe(ft_history[e].loss, ft_history[f].loss)
        /\ \A f \in 1..(e - 1) : ft_history[f].loss # ft_history[e].loss

-----------------------------------------------------------------------------
(***************************************************************************)
(* The layout of the key stream over the parameters of CryptoCNN.          *)
(***************************************************************************)
\* The parameters of a network in declaration order: conv1.weight,
\* conv1.bias, ..., conv5.weight, conv5.bias.
RECURSIVE ParametersUpTo(_, _)
ParametersUpTo(net, l) ==
    IF l = 0 THEN <<>>
    ELSE ParametersUpTo(net, l - 1) \o net.weight[l] \o net.bias[l]
ParametersInOrder(net) == ParametersUpTo(net, 5)

\* The channels of the layers of a mask network for the images of the model.
LayerIn(l) == IF l = 1 THEN Cardinality(Chan) ELSE HiddenWidth
LayerOut(l) == IF l = 5 THEN Cardinality(Chan) ELSE HiddenWidth

\* P: the number of parameters, layer by layer.
RECURSIVE ParamCountUpTo(_)
ParamCountUpTo(l) ==
    IF l = 0 THEN 0
    ELSE ParamCountUpTo(l - 1) + LayerOut(l) * LayerIn(l) * KernelSize * KernelSize + LayerOut(l)

\* The key stream a network's parameters were taken from: the 4*P bytes.
KeyStreamOf(net) ==
    Encrypt(ChaCha20New(SubSeq(net.binary_key, 1, ChaChaKeyLen), RepeatByte(0, 8)),
            BytesPerParam * ParamCountUpTo(5))

\* The j-th parameter in declaration order is the j-th value of the stream.
StreamInOrder(net) ==
    LET ct == KeyStreamOf(net)
        ps == ParametersInOrder(net)
    IN  /\ Len(ct) = BytesPerParam * ParamCountUpTo(5)
        /\ Len(ps) = ParamCountUpTo(5)
        /\ \A j \in 1..Len(ps) :
              /\ ps[j].src = "key"
              /\ ps[j].w = [b \in 1..BytesPerParam |-> ct[BytesPerParam * (j - 1) + b]]

\* C25 as stated: each layer takes fan_in x fan_out x kH x kW values for its
\* weights, with fan_in = in_channels x kH x kW, then fan_out values for its
\* biases, and the slices are contiguous, disjoint and cover the P values.
C25_WeightsFanInTimesKernel ==
    \A s \in Slot : k_mask[s].built =>
        /\ \A l \in Layers :
              /\ Len(k_mask[s].weight[l]) =
                    (LayerIn(l) * KernelSize * KernelSize) * LayerOut(l) * KernelSize * KernelSize
              /\ Len(k_mask[s].bias[l]) = LayerOut(l)
        /\ StreamInOrder(k_mask[s])

\* C25 amended: each layer takes fan_out x in_channels x kH x kW values for
\* its weights (fan_in x fan_out, the size of the weight tensor) and then
\* fan_out values for its biases; taken in declaration order the slices are
\* contiguous and disjoint and cover exactly the P values of the 4*P bytes.
C25_WeightsFanInTimesFanOut ==
    \A s \in Slot : k_mask[s].built =>
        /\ \A l \in Layers :
              /\ Len(k_mask[s].weight[l]) = LayerOut(l) * LayerIn(l) * KernelSize * KernelSize
              /\ Len(k_mask[s].bias[l]) = LayerOut(l)
              /\ \A i \in DOMAIN k_mask[s].weight[l] :
                    k_mask[s].weight[l][i].fan_in = LayerIn(l) * KernelSize * KernelSize
        /\ StreamInOrder(k_mask[s])

\* C25 witness: both variables hold a network built from a key, for
\* different seeds.
C25_TwoNetworksBuilt ==
    /\ k_mask[1].built
    /\ k_mask[2].built
    /\ mask_seed[1] # mask_seed[2]

-----------------------------------------------------------------------------
\* A surrogate folder is given and it does not exist or holds no file whose
\* name starts with 'surrogate_decoder_'.
SurrogatesMissing ==
    /\ surrogate_decoder_folder # None
    /\ \/ ~surrogate_decoder_folder.exists
       \/ \A i \in DOMAIN surrogate_decoder_folder.files :
             ~StartsWithSurrogate(surrogate_decoder_folder.files[i])

\* C17: when a surrogate folder is given and it does not exist or holds no
\* surrogate file, main goes no further than the folder check: it ends there
\* with a fatal error, no model is set up or loaded and nothing is trained or
\* attacked.
C17_MissingSurrogatesFatal ==
    SurrogatesMissing =>
        /\ main_pc \in {"attack_mode", "raised"}
        /\ main_pc = "raised" => main_error = "ValueError"

-----------------------------------------------------------------------------
\* No key of the dictionary starts with 'module.' itself.
NoOwnModuleKey(d) == \A i \in DOMAIN d : ~StartsWithModule(d[i].k)

\* C18 as stated: for every parameter dictionary, the dictionaries built from
\* its checkpoint with the 'module.' prefix and from its checkpoint without
\* it are the same (keys, values, order), whether or not the target surrogate
\* is wrapped.
C18_PrefixTransparentForEveryDict ==
    \A i, j \in DOMAIN main_loads :
        main_loads[i].new_state_dict = main_loads[j].new_state_dict

\* C18 amended: for every parameter dictionary none of whose own keys starts
\* with 'module.', the dictionary built from either checkpoint (with the
\* prefix on every key, or without it) is the dictionary itself: same keys,
\* same values, same order; so the two loads agree and a key without the
\* prefix is loaded unchanged.
C18_PrefixTransparent ==
    NoOwnModuleKey(checkpoint_params) =>
        /\ \A i \in DOMAIN main_loads :
              main_loads[i].new_state_dict = checkpoint_params
        /\ \A i, j \in DOMAIN main_loads :
              main_loads[i].new_state_dict = main_loads[j].new_state_dict

\* C18 witness: both checkpoints of a dictionary of two parameters were read,
\* the prefixed one and the plain one, both surrogates were loaded and main
\* went on to the attack.
C18_BothVersionsLoaded ==
    /\ main_pc = "attacked"
    /\ NoOwnModuleKey(checkpoint_params)
    /\ Len(checkpoint_params) = 2
    /\ Len(main_surrogate_decoders) = 2
    /\ \E i, j \in DOMAIN main_loads :
          /\ main_loads[i].file = WrappedFile
          /\ main_loads[j].file = PlainFile
          /\ main_surrogate_decoders[i].params = main_surrogate_decoders[j].params
-----------------------------------------------------------------------------
(***************************************************************************)
(* generate_initial_perturbations.                                         *)
(***************************************************************************)
\* The call is over: it returned or raised.
GipOver == gip_pc \in {"returned", "raised"}

\* C23: in every step the update direction is the gradient of a loss that
\* depends on the surrogate's forward pass on the candidate, and the step
\* completes without raising: the graph of the loss of a step passes through
\* the surrogate, and no call ends with an exception.
C23_LossThroughSurrogate ==
    /\ gip_pc = "backward" =>
          /\ gip_loss.requires_grad
          /\ "surrogate_decoder" \in gip_loss.through
    /\ gip_error = "none"

\* C21: the loop executes at most num_steps steps and stops early exactly
\* when the plateau counter has reached 5: a call that is over has run all
\* of its num_steps steps, or has counted 5 consecutive steps below the
\* threshold.
C21_StopsAtCountOrPlateau ==
    GipOver => (gip_step = gip_num_steps \/ plateau_count >= 5)

\* C22: for num_steps >= 1 the function returns the candidate of the first
\* step with the lowest mean score, and that candidate is never absent: a
\* call with num_steps >= 1 that is over has returned, with a best
\* perturbation that is not None and scores that are not None.
C22_BestPerturbationReturned ==
    (GipOver /\ gip_num_steps >= 1) =>
        /\ gip_pc = "returned"
        /\ best_perturbation # None
        /\ best_k_scores # None

\* C29: the call leaves the surrogate's train/eval mode as it was before the
\* call, so that a surrogate in training mode is in training mode at the
\* optimizer step that follows.
C29_ModeAsBeforeTheCall ==
    GipOver => surrogate_training = training_at_call

\* C30: once the steps of a call with num_steps >= 1 are over, every element
\* of the candidate lies within [original - max_delta, original + max_delta]
\* and within [-1, 1], also for originals with elements outside [-1, 1].
C30_CandidateInBothRanges ==
    (GipOver /\ gip_num_steps >= 1) =>
        \A e \in DOMAIN gip_images :
            /\ gip_original_images[e] - gip_max_delta <= gip_images[e]
            /\ gip_images[e] <= gip_original_images[e] + gip_max_delta
            /\ -1 <= gip_images[e]
            /\ gip_images[e] <= 1

-----------------------------------------------------------------------------
\* Every rank has returned from train_surrogate_decoder.
AllReturned == \A r \in Ranks : rank_pc[r] = "returned"

\* The calls of all_reduce a rank has made are, in order, loss then norm
\* difference for each epoch, none for a single process.
SameCallsInOrder(r) ==
    /\ \A k \in DOMAIN reduce_entered[r] :
          reduce_entered[r][k].what = IF k % 2 = 1 THEN "loss" ELSE "norm_diff"
    /\ Len(reduce_entered[r]) <= 2 * tr_epochs
    /\ world_size = 1 => reduce_entered[r] = <<>>
    /\ (world_size > 1 /\ rank_pc[r] = "epoch_end") =>
          Len(reduce_entered[r]) = 2 * (rank_epoch[r] + 1)
    /\ (world_size > 1 /\ rank_pc[r] \in {"batch_loop", "returned"}) =>
          Len(reduce_entered[r]) = 2 * rank_epoch[r]

\* What the epoch-level aggregation guarantees in every state.
CollectiveSafety ==
    \A r \in Ranks :
        /\ SameCallsInOrder(r)
        /\ \A q \in Ranks : Len(reduce_entered[q]) >= reduce_returned[r]
        /\ \A e \in DOMAIN global_avg_loss[r] :
              global_avg_loss[r][e] =
                  Rat(SumOver(local_avg_loss, Ranks), world_size)

\* C19: every rank makes the same all_reduce calls in the same order, two per
\* epoch; no all_reduce call of a rank returns before every rank has made
\* that call; the global average loss a rank obtains is the sum of the ranks'
\* local averages divided by world_size; and no rank waits in an all_reduce
\* forever: every rank eventually returns from train_surrogate_decoder.
C19_BlockingCollective ==
    /\ []CollectiveSafety
    /\ <>AllReturned

\* C19 witness: a group of at least two ranks with different local losses
\* has been through at least two epochs and every rank has returned with one
\* global average per epoch.
C19_GroupTrainedTwoEpochs ==
    /\ world_size >= 2
    /\ tr_epochs >= 2
    /\ local_avg_loss[0] # local_avg_loss[1]
    /\ \A r \in Ranks :
          /\ rank_pc[r] = "returned"
          /\ reduce_returned[r] = 2 * tr_epochs
          /\ Len(global_avg_loss[r]) = tr_epochs

-----------------------------------------------------------------------------
\* C20: every log line was emitted by rank 0 and every checkpoint file was
\* written by rank 0.
C20_OnlyRankZeroLogsAndSaves ==
    /\ \A i \in DOMAIN tr_log : tr_log[i].rank = 0
    /\ \A f \in tr_files : f.rank = 0

\* C20 witness: every rank of a group of at least two has returned from a
\* training of at least one epoch, rank 0 has logged its lines and written
\* the checkpoint.
C20_GroupReturnedRankZeroSaved ==
    /\ world_size >= 2
    /\ tr_epochs >= 1
    /\ \A r \in Ranks : rank_pc[r] = "returned"
    /\ tr_files # {}
    /\ \E i \in DOMAIN tr_log : tr_log[i].msg = "epoch"
    /\ tr_log[Len(tr_log)].msg = "saved"

-----------------------------------------------------------------------------
\* The delta of the call, and its mean over one channel and over the sample.
DeltaOf(c, p) == Fin(x_M_hat[c][p] - x_M[c][p])
ChannelMean(c) == FMean([p \in Pix |-> DeltaOf(c, p)], Pix)
SampleMean == FMean([e \in Chan \X Pix |-> DeltaOf(e[1], e[2])], Chan \X Pix)

\* The returned element for a delta from which the mean m was removed: the
\* removal of a mean keeps the range, so the rescale factor is 1.
MeanRemoved(c, p, m) ==
    FAdd(Fin(x_M[c][p]), FClamp(FSub(DeltaOf(c, p), m), Fin(-max_delta), Fin(max_delta)))

\* C26 as stated: the mean removed from delta is one mean per sample, taken
\* over all its channels and spatial positions.
C26_MeanPerFullSample ==
    (constrain_pc = "returned" /\ \A c \in Chan : ~ZeroRangeDelta(c)) =>
        \A c \in Chan, p \in Pix :
            x_M_hat_constrained[c][p] = MeanRemoved(c, p, SampleMean)

\* C26 amended: the mean removed from delta (and with it the ranges of the
\* rescale) is taken per sample and per channel, over the spatial positions
\* of that channel only: a channel whose delta is not constant is returned
\* with its own mean removed, whatever the other channels hold.
C26_MeanPerChannel ==
    constrain_pc = "returned" =>
        \A c \in Chan :
            ~ZeroRangeDelta(c) =>
                \A p \in Pix : x_M_hat_constrained[c][p] = MeanRemoved(c, p, ChannelMean(c))

\* C26 witness: a call has returned whose two channels have deltas that are
\* not constant and have different means, with no element clamped.
C26_ChannelsWithDifferentMeans ==
    /\ constrain_pc = "returned"
    /\ \A c \in Chan : ~ZeroRangeDelta(c)
    /\ ChannelMean(1) # ChannelMean(2)
    /\ \A c \in Chan, p \in Pix :
          /\ IsFinite(x_M_hat_constrained[c][p])
          /\ x_M_hat_constrained[c][p] = FAdd(Fin(x_M[c][p]), FSub(DeltaOf(c, p), ChannelMean(c)))
-----------------------------------------------------------------------------
(***************************************************************************)
(* load_stylegan2_model under a process group.                             *)
(***************************************************************************)
\* C27: under an initialised process group the barrier is entered by all
\* ranks or by none: once every rank has made its existence check, the ranks
\* headed into the barrier are all of them or none of them, and no rank has
\* read the file while it was not complete.
C27_BarrierAllOrNone ==
    load_initialized =>
        /\ \A r \in LoadRanks : file_read[r] \in {"none", "complete"}
        /\ (\A r \in LoadRanks : load_pc[r] # "exists") =>
              LET waiting == {r \in LoadRanks :
                                load_pc[r] \in {"download", "downloading", "barrier", "in_barrier"}
                                \/ r \in barrier_entered}
              IN  waiting = {} \/ waiting = LoadRanks
=============================================================================
